---------------------------- MODULE Spec2Model ----------------------------
(***************************************************************************)
(* A model of the BB84 simulation engine (src/bb84_simulator.py), of the   *)
(* lab simulator and the metrics operations (src/lab_simulator.py) and of  *)
(* the continuous-simulation endpoints (src/routes.py).                    *)
(*                                                                         *)
(* Python strings are sequences of one-character strings.  Floats that the *)
(* code only multiplies, divides and compares are exact rationals <<n, d>> *)
(* with d > 0.  A call of random.* is a nondeterministic choice among the  *)
(* outcomes whose probability is not zero.                                 *)
(***************************************************************************)
EXTENDS Integers, Sequences, FiniteSets, TLC

VARIABLES
    ucall,      \* UnitSpec: the function under test and its arguments
    uret,       \* UnitSpec: what the function returned
    eng,        \* Spec: the locals of one run of the engine's orchestrator
    cs,         \* ContSpec: routes.continuous_simulation (the global dict)
    lock,       \* ContSpec: holder of continuous_simulation_lock
    starter,    \* ContSpec: the request thread of start_continuous_simulation
    stopper,    \* ContSpec: the request thread of stop_continuous_simulation
    worker,     \* ContSpec: the background worker threads
    poller,     \* ContSpec: the request threads of get_continuous_data
    clock,      \* ContSpec: counters that bound the run
    lab         \* LabSpec: the BB84LabSimulator and the locals of its run

vars == <<ucall, uret, eng, cs, lock, starter, stopper, worker, poller, clock, lab>>

-----------------------------------------------------------------------------
(* Bounds of the model.                                                    *)

MaxSiftLen == 3
MaxPairLen == 4
MaxKeyLen == 8
MaxRunLen == 2
MaxAutoLen == 1
MaxQrngBits == 5
MaxPhotons == 2
MaxLabRuns == 2
MaxStarts == 2
MaxStops == 1
MaxPolls == 2
NumPollers == 2

-----------------------------------------------------------------------------
(* Strings and rationals.                                                  *)

Bit == {"0", "1"}
BasisSym == {"+", "x"}
Lost == "?"
RecvSym == Bit \cup {Lost}

Strings(S, n) == UNION {[1..k -> S] : k \in 0..n}
StringsOfLen(S, n) == [1..n -> S]

Min(a, b) == IF a <= b THEN a ELSE b
Max(a, b) == IF a >= b THEN a ELSE b

Prefix(s, n) == SubSeq(s, 1, Min(n, Len(s)))

Flip(b) == IF b = "0" THEN "1" ELSE "0"
Xor(a, b) == IF a = b THEN "0" ELSE "1"

Rat(n, d) == <<n, d>>
RatLess(p, q) == p[1] * q[2] < q[1] * p[2]
RatLeq(p, q) == p[1] * q[2] <= q[1] * p[2]
RatEq(p, q) == p[1] * q[2] = q[1] * p[2]
RatMul(p, q) == <<p[1] * q[1], p[2] * q[2]>>
RatMin(p, q) == IF RatLeq(p, q) THEN p ELSE q
RatMax(p, q) == IF RatLeq(p, q) THEN q ELSE p
RatAdd(p, q) == <<p[1] * q[2] + q[1] * p[2], p[2] * q[2]>>
RatSub(p, q) == <<p[1] * q[2] - q[1] * p[2], p[2] * q[2]>>
\* p / q for q > 0
RatDiv(p, q) == <<p[1] * q[2], p[2] * q[1]>>
RatOfInt(n) == <<n, 1>>
Pow10(digits) == IF digits = 0 THEN 1 ELSE IF digits = 1 THEN 10
                 ELSE IF digits = 2 THEN 100 ELSE IF digits = 3 THEN 1000
                 ELSE 10000
\* round(p, digits) for p >= 0, to the nearest multiple of 10^-digits; the
\* result is in lowest form over 10^digits, so equal values are equal tuples
RECURSIVE Gcd(_, _)
Gcd(a, b) == IF b = 0 THEN a ELSE Gcd(b, a % b)
Abs(n) == IF n < 0 THEN 0 - n ELSE n
\* p in lowest terms
Reduce(p) == LET g == Gcd(Abs(p[1]), p[2]) IN <<p[1] \div g, p[2] \div g>>
Round(p, digits) ==
    LET r == Reduce(p)
    IN  <<(2 * r[1] * Pow10(digits) + r[2]) \div (2 * r[2]), Pow10(digits)>>
\* int(n * p) for n >= 0 and p >= 0: truncation is the floor
IntOfProduct(n, p) == (n * p[1]) \div p[2]

RatZero == Rat(0, 1)
RatOne == Rat(1, 1)

\* the number of positions of zip(a, b) where the two differ
RECURSIVE Mismatches(_, _)
Mismatches(a, b) ==
    IF a = <<>> \/ b = <<>> THEN 0
    ELSE (IF Head(a) /= Head(b) THEN 1 ELSE 0) + Mismatches(Tail(a), Tail(b))

-----------------------------------------------------------------------------
(* The engine's pure functions (BB84SimulationEngine).                     *)

\* self.qber_threshold = 0.085
qber_threshold == Rat(85, 1000)

NoneValue == <<"None">>

sift_keys_nodetect(alice_bits, alice_bases, bob_bits, bob_bases) ==
    LET n == Min(Min(Len(alice_bits), Len(alice_bases)),
                 Min(Len(bob_bits), Len(bob_bases)))
        F[i \in 0..n] ==
            IF i = 0 THEN <<<<>>, <<>>>>
            ELSE IF alice_bases[i] = bob_bases[i]
                 THEN <<Append(F[i-1][1], alice_bits[i]), Append(F[i-1][2], bob_bits[i])>>
                 ELSE F[i-1]
    IN  F[n]

\* for ... in zip(alice_bits, alice_bases, bob_bits, bob_bases):
\*     if a_basis == b_basis and b_bit != "?": append to both
sift_keys(alice_bits, alice_bases, bob_bits, bob_bases) ==
    LET n == Min(Min(Len(alice_bits), Len(alice_bases)),
                 Min(Len(bob_bits), Len(bob_bases)))
        F[i \in 0..n] ==
            IF i = 0 THEN <<<<>>, <<>>>>
            ELSE IF alice_bases[i] = bob_bases[i] /\ bob_bits[i] /= Lost
                 THEN <<Append(F[i-1][1], alice_bits[i]), Append(F[i-1][2], bob_bits[i])>>
                 ELSE F[i-1]
    IN  F[n]

calculate_qber_zero_on_empty(alice_key, bob_key) ==
    IF Len(alice_key) = 0 \/ Len(bob_key) = 0 THEN RatZero
    ELSE Rat(Mismatches(alice_key, bob_key), Len(alice_key))

calculate_qber(alice_key, bob_key) ==
    IF Len(alice_key) = 0 \/ Len(bob_key) = 0 THEN RatOne
    ELSE Rat(Mismatches(alice_key, bob_key), Len(alice_key))

error_correction_keep_bob(alice_key, bob_key, method) ==
    IF method = "none" THEN <<alice_key, bob_key, 0>>
    ELSE <<alice_key, bob_key, Mismatches(alice_key, bob_key)>>

\* 'none' returns its arguments; cascade, winnow and ldpc return Alice's key
\* twice with the initial error count; any other method recurses as cascade
error_correction_cascade(alice_key, bob_key, method) ==
    IF method = "none" THEN <<alice_key, bob_key, 0>>
    ELSE <<alice_key, alice_key, Mismatches(alice_key, bob_key)>>

\* the loop 'for i in range(0, len(key), 2)' of the universal branch
RECURSIVE XorPairs(_)
XorPairs(key) ==
    IF key = <<>> THEN <<>>
    ELSE IF Len(key) = 1 THEN key
    ELSE <<Xor(key[1], key[2])>> \o XorPairs(Tail(Tail(key)))

privacy_amplification_rounds_up(key, method, amplification_factor) ==
    IF Len(key) = 0 THEN <<>>
    ELSE IF method = "none" THEN key
    ELSE IF method = "standard"
         THEN Prefix(key, Max(1, (Len(key) * amplification_factor[1]
                                    + amplification_factor[2] - 1)
                                 \div amplification_factor[2]))
    ELSE IF method = "universal"
         THEN Prefix(XorPairs(key), Max(1, IntOfProduct(Len(key), Rat(6, 10))))
    ELSE NoneValue

privacy_amplification_truncates_first(key, method, amplification_factor) ==
    IF Len(key) = 0 THEN <<>>
    ELSE IF method = "none" THEN key
    ELSE IF method = "standard"
         THEN Prefix(key, Max(1, IntOfProduct(Len(key), amplification_factor)))
    ELSE IF method = "universal"
         THEN XorPairs(Prefix(key, Max(1, IntOfProduct(Len(key), Rat(6, 10)))))
    ELSE NoneValue

\* falls off the end of the if/elif chain (returns None) for a method that
\* is neither none, standard nor universal
privacy_amplification(key, method, amplification_factor) ==
    IF Len(key) = 0 THEN <<>>
    ELSE IF method = "none" THEN key
    ELSE IF method = "standard"
         THEN Prefix(key, Max(1, IntOfProduct(Len(key), amplification_factor)))
    ELSE IF method = "universal"
         THEN Prefix(XorPairs(key), Max(1, IntOfProduct(Len(key), Rat(6, 10))))
    ELSE NoneValue

\* one symbol through the channel: lost first, else flipped, else unchanged.
\* random.random() < p is possible iff p > 0 and can fail iff p < 1;
\* loss_probability = min(1 - 10**(-total_loss_db/10), 0.85) is positive iff
\* total_loss_db = 0.184 * distance / 1000 + noise * 0.5 is, and never 1
ChannelFates_flips_over_distance(distance, noise) ==
    (IF distance > 0 \/ RatLess(RatZero, noise) THEN {"lost", "flip"} ELSE {})
    \cup (IF RatLess(noise, RatOne) THEN {"pass"} ELSE {})

ChannelFates(distance, noise) ==
    (IF distance > 0 \/ RatLess(RatZero, noise) THEN {"lost"} ELSE {})
    \cup (IF RatLess(RatZero, noise) THEN {"flip"} ELSE {})
    \cup (IF RatLess(noise, RatOne) THEN {"pass"} ELSE {})

ChannelSymbol(bit, fate) ==
    IF fate = "lost" THEN Lost ELSE IF fate = "flip" THEN Flip(bit) ELSE bit

apply_channel_effects_counts_lost(bits, distance, noise) ==
    { <<[i \in 1..Len(bits) |-> ChannelSymbol(bits[i], f[i])],
        IF Len(bits) > 0
        THEN Rat(Cardinality({i \in 1..Len(bits) : f[i] /= "pass"}), Len(bits))
        ELSE RatZero>> :
      f \in [1..Len(bits) -> ChannelFates(distance, noise)] }

\* the set of <<received_bits, error_rate>> the call can return
apply_channel_effects(bits, distance, noise) ==
    { <<[i \in 1..Len(bits) |-> ChannelSymbol(bits[i], f[i])],
        IF Len(bits) > 0
        THEN Rat(Cardinality({i \in 1..Len(bits) : f[i] = "flip"}), Len(bits))
        ELSE RatZero>> :
      f \in [1..Len(bits) -> ChannelFates(distance, noise)] }

generate_random_bits(n) == StringsOfLen(Bit, n)
generate_random_bases(n) == StringsOfLen(BasisSym, n)

simulate_eve_attack_always_random(alice_bits, alice_bases, attack_type) ==
    IF attack_type = "none" THEN {<<alice_bits, alice_bases, RatZero>>}
    ELSE IF attack_type = "intercept_resend"
    THEN LET n == Min(Len(alice_bits), Len(alice_bases))
         IN  { <<r, eb, Rat(25, 100)>> :
               eb \in generate_random_bases(Len(alice_bits)),
               r \in StringsOfLen(Bit, n) }
    ELSE {<<<<>>, <<>>, RatZero>>}

\* the set of <<intercepted_bits, eve_bases, detection_probability>> the call
\* can return.  Only 'none' and 'intercept_resend' have a branch: any other
\* attack type returns the two empty strings it initialised
simulate_eve_attack(alice_bits, alice_bases, attack_type) ==
    IF attack_type = "none" THEN {<<alice_bits, alice_bases, RatZero>>}
    ELSE IF attack_type = "intercept_resend"
    THEN LET n == Min(Len(alice_bits), Len(alice_bases))
         IN  { <<[i \in 1..n |-> IF alice_bases[i] = eb[i] THEN alice_bits[i] ELSE r[i]],
                 eb, Rat(25, 100)>> :
               eb \in generate_random_bases(Len(alice_bits)),
               r \in StringsOfLen(Bit, n) }
    ELSE {<<<<>>, <<>>, RatZero>>}

AdjustQber_uncapped(qber, protocol_variant) ==
    IF protocol_variant = "decoy" THEN RatMul(qber, Rat(98, 100))
    ELSE IF protocol_variant = "sarg04" THEN RatMul(qber, Rat(11, 10))
    ELSE IF protocol_variant = "six-state" THEN RatMul(qber, Rat(95, 100))
    ELSE IF protocol_variant = "custom" THEN RatMul(qber, RatOne)
    ELSE qber

AdjustQber_twice(qber, protocol_variant) ==
    IF protocol_variant = "decoy" THEN RatMul(RatMul(qber, Rat(98, 100)), Rat(98, 100))
    ELSE IF protocol_variant = "sarg04"
    THEN RatMin(RatMul(RatMin(RatMul(qber, Rat(11, 10)), Rat(5, 10)), Rat(11, 10)),
                Rat(5, 10))
    ELSE IF protocol_variant = "six-state"
    THEN RatMul(RatMul(qber, Rat(95, 100)), Rat(95, 100))
    ELSE IF protocol_variant = "custom" THEN RatMul(qber, RatOne)
    ELSE qber

\* lines 860-880 of run_manual_simulation
AdjustQber(qber, protocol_variant) ==
    IF protocol_variant = "decoy" THEN RatMul(qber, Rat(98, 100))
    ELSE IF protocol_variant = "sarg04" THEN RatMin(RatMul(qber, Rat(11, 10)), Rat(5, 10))
    ELSE IF protocol_variant = "six-state" THEN RatMul(qber, Rat(95, 100))
    ELSE IF protocol_variant = "custom" THEN RatMul(qber, RatOne)
    ELSE qber

SecurityDecision_misplaced_point(qber) == RatLess(qber, Rat(85, 100))

\* is_secure = qber < self.qber_threshold
SecurityDecision(qber) == RatLess(qber, qber_threshold)

-----------------------------------------------------------------------------
(* One run of the orchestrator: run_manual_simulation (mode "manual") or   *)
(* run_photon_rate_continuous_simulation (mode "continuous").  eng.pc is   *)
(* the statement the run is at; a call argument is drawn where the code    *)
(* first reads it and recorded in eng.                                      *)

ProtocolVariants == {"bb84", "sarg04", "decoy", "six-state", "custom"}
EveAttacks == {"none", "intercept_resend", "beam_splitting",
               "photon_number_splitting", "trojan_horse"}
ErrorCorrections == {"none", "cascade", "winnow", "ldpc"}
PrivacyAmplifications == {"none", "standard", "universal", "toeplitz"}
NoiseLevels == {RatZero, Rat(1, 10), RatOne}
Distances == {0, 1000}

\* the engine after __init__ (lines 37-77) and before any call; the fields
\* beside simulation_logs are the locals of the run under way.  env is the
\* world the run meets (QISKIT_AVAILABLE, the IBM service, the Aer
\* simulator); rng_path and rng_logs record which return statement of
\* generate_quantum_random_bits gave the bits and what it logged.
EngIdle ==
    [pc |-> "idle", mode |-> "none", caller |-> "none", args |-> "any",
     protocol_variant |-> "none",
     simulation_logs |-> <<>>,
     num_qubits |-> 0, rng_type |-> "unset", backend_type |-> "unset",
     env |-> [qiskit |-> FALSE, hardware |-> "unused", simulator |-> "unused"],
     quantum_used |-> FALSE, rng_path |-> "none", rng_logs |-> <<>>,
     quantum_bits_generated |-> FALSE,
     num_bits |-> 0, status |-> "none", qrng_key |-> <<>>,
     alice_bits |-> <<>>, alice_bases |-> <<>>,
     distance |-> 0, noise |-> RatZero,
     transmitted_bits |-> <<>>, channel_error_rate |-> RatZero,
     eve_attack |-> "unset", eve_bases |-> <<>>, eve_detection_prob |-> RatZero,
     bob_bases |-> <<>>, bob_bits |-> <<>>,
     alice_sifted |-> <<>>, bob_sifted |-> <<>>,
     qber |-> RatZero, is_secure |-> FALSE,
     error_correction |-> "unset",
     alice_corrected |-> <<>>, bob_corrected |-> <<>>, errors_corrected |-> 0,
     privacy_amplification |-> "unset", final_key |-> <<>>,
     error |-> "none"]

\* log_message (lines 79-84): append {timestamp, message, level}; the message
\* is kept as the name of the event it reports, the timestamp is left out
LogEntry(level, message) == [level |-> level, message |-> message]
log_message(e, message, level) ==
    [e EXCEPT !.simulation_logs = Append(@, LogEntry(level, message))]
\* several log_message calls in a row
LogAll(e, entries) ==
    [e EXCEPT !.simulation_logs = @ \o entries]

NoCall == [op |-> "none", alice |-> <<>>, alice_bases |-> <<>>, bob |-> <<>>,
           bob_bases |-> <<>>, method |-> "none", amplification_factor |-> Rat(1, 2)]
NoReturn == [done |-> FALSE, val |-> <<>>]

EngUnchanged == UNCHANGED eng
UnitUnchanged == UNCHANGED <<ucall, uret>>
ContUnchanged == UNCHANGED <<cs, lock, starter, stopper, worker, poller, clock>>
LabUnchanged == UNCHANGED lab

\* the arguments a call is made with: any within the bounds, or those of the
\* spec's Scenario A (noise 0, distance 0, no eavesdropper)
ArgDistances(e) == IF e.args = "scenario_a" THEN {0} ELSE Distances
ArgNoiseLevels(e) == IF e.args = "scenario_a" THEN {RatZero} ELSE NoiseLevels
ArgEveAttacks(e) == IF e.args = "scenario_a" THEN {"none"} ELSE EveAttacks

\* run_manual_simulation, lines 807-828: the logs are reset and the start is
\* logged, then the lengths are checked, then Alice's strings are taken
ManualEntry(e, bits, bases, variant) ==
    LET started == log_message([e EXCEPT !.simulation_logs = <<>>, !.mode = "manual",
                                         !.protocol_variant = variant],
                               "start", "info")
    IN  IF Len(bits) /= Len(bases)
        THEN [started EXCEPT !.pc = "raised", !.error = "ValueError"]
        ELSE log_message([started EXCEPT !.pc = "channel",
                                         !.alice_bits = bits, !.alice_bases = bases],
                         "prepare", "info")

StartManual ==
    /\ eng.pc = "idle"
    /\ \E bits \in Strings(Bit, MaxRunLen), bases \in Strings(BasisSym, MaxRunLen),
          variant \in ProtocolVariants :
         eng' = ManualEntry(eng, bits, bases, variant)
    /\ UnitUnchanged /\ ContUnchanged /\ LabUnchanged

\* run_photon_rate_continuous_simulation, lines 1006-1014
StartContinuousBatch ==
    /\ eng.pc = "idle"
    /\ \E k \in 0..MaxRunLen :
         LET photon_rate == 10 * k
             num_photons == Min(IntOfProduct(photon_rate, Rat(1, 10)), 100)
         IN  \E bits \in generate_random_bits(num_photons),
                bases \in generate_random_bases(num_photons) :
               eng' = LogAll([eng EXCEPT !.pc = "channel", !.mode = "continuous",
                                         !.protocol_variant = "bb84",
                                         !.simulation_logs = <<>>,
                                         !.alice_bits = bits, !.alice_bases = bases],
                             <<LogEntry("info", "start"), LogEntry("info", "stream")>>)
    /\ UnitUnchanged /\ ContUnchanged /\ LabUnchanged

\* transmitted_bits, channel_error_rate = self.apply_channel_effects(...)
Transmit ==
    /\ eng.pc = "channel"
    /\ \E distance \in ArgDistances(eng), noise \in ArgNoiseLevels(eng) :
         \E out \in apply_channel_effects(eng.alice_bits, distance, noise) :
           eng' = [eng EXCEPT !.pc = "eve", !.distance = distance, !.noise = noise,
                              !.transmitted_bits = out[1],
                              !.channel_error_rate = out[2]]
    /\ UnitUnchanged /\ ContUnchanged /\ LabUnchanged

\* lines 835-843 (1019-1027): Eve's attack replaces transmitted_bits
Intercept ==
    /\ eng.pc = "eve"
    /\ \E eve_attack \in ArgEveAttacks(eng) :
         IF eve_attack /= "none"
         THEN \E out \in simulate_eve_attack(eng.transmitted_bits, eng.alice_bases,
                                             eve_attack) :
                eng' = log_message(
                         [eng EXCEPT !.pc = "measure", !.eve_attack = eve_attack,
                                     !.transmitted_bits = out[1], !.eve_bases = out[2],
                                     !.eve_detection_prob = out[3]],
                         "eve", "warning")
         ELSE eng' = [eng EXCEPT !.pc = "measure", !.eve_attack = eve_attack,
                                 !.eve_bases = <<>>, !.eve_detection_prob = RatZero]
    /\ UnitUnchanged /\ ContUnchanged /\ LabUnchanged

\* lines 845-849 (1029-1031): Bob's bases are drawn at random, his bits are
\* what arrived
Measure ==
    /\ eng.pc = "measure"
    /\ \E bob_bases \in generate_random_bases(Len(eng.alice_bits)) :
         LET measured == [eng EXCEPT !.pc = "sift", !.bob_bases = bob_bases,
                                     !.bob_bits = eng.transmitted_bits]
         IN  eng' = IF eng.mode = "manual"
                    THEN log_message(measured, "measure", "info")
                    ELSE measured
    /\ UnitUnchanged /\ ContUnchanged /\ LabUnchanged

\* lines 852-854 (1034-1035)
Sift ==
    /\ eng.pc = "sift"
    /\ LET out == sift_keys(eng.alice_bits, eng.alice_bases, eng.bob_bits, eng.bob_bases)
       IN  eng' = log_message([eng EXCEPT !.pc = "qber", !.alice_sifted = out[1],
                                          !.bob_sifted = out[2]],
                              "sift", "info")
    /\ UnitUnchanged /\ ContUnchanged /\ LabUnchanged

\* line 857 (1038); the continuous batch has no variant adjustment
ComputeQber ==
    /\ eng.pc = "qber"
    /\ eng' = [eng EXCEPT !.pc = IF eng.mode = "manual" THEN "adjust" ELSE "security",
                          !.qber = calculate_qber(eng.alice_sifted, eng.bob_sifted)]
    /\ UnitUnchanged /\ ContUnchanged /\ LabUnchanged

\* lines 860-880; bb84 has no branch and logs nothing
Adjust ==
    /\ eng.pc = "adjust"
    /\ LET adjusted == [eng EXCEPT !.pc = "security",
                                   !.qber = AdjustQber(eng.qber, eng.protocol_variant)]
       IN  eng' = IF eng.protocol_variant \in {"decoy", "sarg04", "six-state", "custom"}
                  THEN log_message(adjusted, "variant", "info")
                  ELSE adjusted
    /\ UnitUnchanged /\ ContUnchanged /\ LabUnchanged

\* lines 883-888 (1039, which logs nothing)
SecurityCheck ==
    /\ eng.pc = "security"
    /\ LET is_secure == SecurityDecision(eng.qber)
           decided == [eng EXCEPT !.pc = "correct", !.is_secure = is_secure]
       IN  eng' = IF eng.mode /= "manual" THEN decided
                  ELSE IF is_secure THEN log_message(decided, "secure", "success")
                  ELSE log_message(decided, "not_secure", "error")
    /\ UnitUnchanged /\ ContUnchanged /\ LabUnchanged

\* lines 890-916: cascade, winnow and ldpc all call error_correction_cascade
\* with its default method; lines 1042-1049 pass the method on
RunErrorCorrection(alice_sifted, bob_sifted, method, mode) ==
    IF method = "none" THEN <<alice_sifted, bob_sifted, 0>>
    ELSE IF mode = "continuous"
         THEN error_correction_cascade(alice_sifted, bob_sifted, method)
    ELSE IF method \in {"cascade", "winnow", "ldpc"}
         THEN error_correction_cascade(alice_sifted, bob_sifted, "cascade")
    ELSE <<alice_sifted, bob_sifted, 0>>

\* what the stage logs: error_correction_cascade logs once (lines 644, 651,
\* 658), run_manual_simulation once more (lines 895, 900, 906, 912)
ErrorCorrectionLogs(method, mode) ==
    IF mode = "continuous"
    THEN IF method = "none" THEN <<>> ELSE <<LogEntry("info", "correction")>>
    ELSE IF method = "none" THEN <<LogEntry("info", "skip_correction")>>
    ELSE IF method \in {"cascade", "winnow", "ldpc"}
         THEN <<LogEntry("info", "correction"), LogEntry("info", "corrected")>>
    ELSE <<>>

Correct ==
    /\ eng.pc = "correct"
    /\ \E method \in ErrorCorrections :
         LET out == RunErrorCorrection(eng.alice_sifted, eng.bob_sifted, method, eng.mode)
         IN  eng' = LogAll([eng EXCEPT !.pc = "amplify", !.error_correction = method,
                                       !.alice_corrected = out[1],
                                       !.bob_corrected = out[2],
                                       !.errors_corrected = out[3]],
                           ErrorCorrectionLogs(method, eng.mode))
    /\ UnitUnchanged /\ ContUnchanged /\ LabUnchanged

\* lines 918-932; line 1052 passes the method on with the default factor
RunPrivacyAmplification(alice_corrected, method, mode) ==
    IF mode = "continuous" THEN privacy_amplification(alice_corrected, method, Rat(5, 10))
    ELSE IF method = "none" THEN alice_corrected
    ELSE IF method \in {"standard", "universal", "toeplitz"}
         THEN privacy_amplification(alice_corrected, method, Rat(5, 10))
    ELSE alice_corrected

\* what privacy_amplification itself logs (lines 667-690): nothing for an
\* empty key and nothing for a method it has no branch for
PrivacyAmplificationLogs(key, method) ==
    IF Len(key) = 0 THEN <<>>
    ELSE IF method = "none" THEN <<LogEntry("info", "skip_amplification")>>
    ELSE IF method \in {"standard", "universal"}
         THEN <<LogEntry("info", "amplification")>>
    ELSE <<>>

\* what the stage logs when it does not raise: lines 921-930, and line 1060
AmplifyLogs(alice_corrected, method, mode) ==
    IF mode = "continuous"
    THEN PrivacyAmplificationLogs(alice_corrected, method)
             \o <<LogEntry("success", "complete")>>
    ELSE IF method = "none" THEN <<LogEntry("info", "skip_amplification")>>
    ELSE PrivacyAmplificationLogs(alice_corrected, method)
             \o <<LogEntry("info", "amplified")>>

\* the next statement takes len(final_key) (lines 924-930, 935, 1055), which
\* raises TypeError on None; otherwise the result record is built (lines
\* 969-999, with quantum_bits_generated False) and returned, to
\* run_auto_simulation when that made the call
Amplify ==
    /\ eng.pc = "amplify"
    /\ \E method \in PrivacyAmplifications :
         LET key == RunPrivacyAmplification(eng.alice_corrected, method, eng.mode)
         IN  eng' = IF key = NoneValue
                    THEN [eng EXCEPT !.pc = "raised", !.privacy_amplification = method,
                                     !.final_key = key, !.error = "TypeError"]
                    ELSE LogAll([eng EXCEPT !.pc = IF eng.caller = "auto"
                                                   THEN "auto_return" ELSE "done",
                                            !.privacy_amplification = method,
                                            !.final_key = key,
                                            !.quantum_bits_generated = FALSE],
                                AmplifyLogs(eng.alice_corrected, method, eng.mode))
    /\ UnitUnchanged /\ ContUnchanged /\ LabUnchanged

-----------------------------------------------------------------------------
(* The random sources that can fail, and run_auto_simulation.               *)

\* what the world outside the engine can do to generate_quantum_random_bits:
\* qiskit not importable (lines 11-27); the IBM service answers; it fails
\* before anything is logged (no key, no connection) or after the backend
\* was logged (the job fails); then the Aer simulator runs or fails too
QuantumEnvs ==
    {[qiskit |-> FALSE, hardware |-> "unused", simulator |-> "unused"],
     [qiskit |-> TRUE, hardware |-> "ok", simulator |-> "unused"]}
    \cup {[qiskit |-> TRUE, hardware |-> h, simulator |-> s] :
            h \in {"connect_fails", "job_fails"}, s \in {"ok", "fails"}}

HardwareQubitCap == 6

Outcome(raised, bits, flag, path, logs) ==
    [raised |-> raised, bits |-> bits, flag |-> flag, path |-> path, logs |-> logs]

generate_quantum_random_bits_flags_simulator(n, env) ==
    IF ~env.qiskit
    THEN {Outcome(FALSE, bits, FALSE, "classical",
                  <<LogEntry("warning", "qiskit_unavailable")>>) :
            bits \in generate_random_bits(n)}
    ELSE IF env.hardware = "ok"
    THEN {Outcome(FALSE, bits, TRUE, "hardware",
                  <<LogEntry("success", "connected"), LogEntry("info", "backend"),
                    LogEntry("success", "quantum_bits")>>) :
            bits \in StringsOfLen(Bit, Min(n, HardwareQubitCap))}
    ELSE LET m == IF env.hardware = "job_fails" THEN Min(n, HardwareQubitCap) ELSE n
             tried == (IF env.hardware = "job_fails"
                       THEN <<LogEntry("success", "connected"), LogEntry("info", "backend")>>
                       ELSE <<>>)
                      \o <<LogEntry("warning", "quantum_rng_failed")>>
         IN  IF env.simulator = "ok"
             THEN {Outcome(FALSE, bits, TRUE, "simulator",
                           tried \o <<LogEntry("info", "simulator_bits")>>) :
                     bits \in StringsOfLen(Bit, m)}
             ELSE {Outcome(FALSE, bits, FALSE, "classical",
                           tried \o <<LogEntry("error", "simulator_failed")>>) :
                     bits \in generate_random_bits(m)}

\* generate_quantum_random_bits (lines 722-799), the later of the two
\* definitions of that name in the class: the set of outcomes of a call in
\* the world env.  n = min(n, 6) (line 743) has run when the job fails, not
\* when the connection does.  The key of the simulator's counts is taken to
\* be the n measured bits.
generate_quantum_random_bits(n, env) ==
    IF ~env.qiskit
    THEN {Outcome(FALSE, bits, FALSE, "classical",
                  <<LogEntry("warning", "qiskit_unavailable")>>) :
            bits \in generate_random_bits(n)}
    ELSE IF env.hardware = "ok"
    THEN {Outcome(FALSE, bits, TRUE, "hardware",
                  <<LogEntry("success", "connected"), LogEntry("info", "backend"),
                    LogEntry("success", "quantum_bits")>>) :
            bits \in StringsOfLen(Bit, Min(n, HardwareQubitCap))}
    ELSE LET m == IF env.hardware = "job_fails" THEN Min(n, HardwareQubitCap) ELSE n
             tried == (IF env.hardware = "job_fails"
                       THEN <<LogEntry("success", "connected"), LogEntry("info", "backend")>>
                       ELSE <<>>)
                      \o <<LogEntry("warning", "quantum_rng_failed")>>
         IN  IF env.simulator = "ok"
             THEN {Outcome(FALSE, bits, FALSE, "simulator",
                           tried \o <<LogEntry("info", "simulator_bits")>>) :
                     bits \in StringsOfLen(Bit, m)}
             ELSE {Outcome(FALSE, bits, FALSE, "classical",
                           tried \o <<LogEntry("error", "simulator_failed")>>) :
                     bits \in generate_random_bits(m)}

RngTypes == {"classical", "quantum"}
BackendTypes == {"classical", "qiskit", "real_quantum"}
RealDeviceQubitCap == 4

\* run_auto_simulation, lines 1096-1112, called without generation_method
StartAuto ==
    /\ eng.pc = "idle"
    /\ \E num_qubits \in 0..MaxAutoLen, rng_type \in RngTypes,
          backend_type \in BackendTypes :
         LET started == log_message([eng EXCEPT !.simulation_logs = <<>>,
                                                !.mode = "auto", !.pc = "auto_bits",
                                                !.rng_type = rng_type,
                                                !.backend_type = backend_type,
                                                !.num_qubits = num_qubits],
                                    "start", "info")
         IN  eng' = IF backend_type = "real_quantum"
                    THEN log_message([started EXCEPT !.num_qubits =
                                                       Min(num_qubits, RealDeviceQubitCap)],
                                     "limited", "warning")
                    ELSE started
    /\ UnitUnchanged /\ ContUnchanged /\ LabUnchanged

\* lines 1108-1118: alice_bits, quantum_used = generate_quantum_random_bits(..)
QuantumRandomBits ==
    /\ eng.pc = "auto_bits"
    /\ eng.rng_type = "quantum" \/ eng.backend_type = "real_quantum"
    /\ \E env \in QuantumEnvs :
         \E out \in generate_quantum_random_bits(eng.num_qubits, env) :
           LET called == LogAll([eng EXCEPT !.env = env, !.rng_logs = out.logs,
                                            !.rng_path = out.path],
                                out.logs)
           IN  eng' = IF out.raised
                      THEN [called EXCEPT !.pc = "raised", !.error = "Exception"]
                      ELSE log_message([called EXCEPT !.pc = "auto_call",
                                                      !.alice_bits = out.bits,
                                                      !.quantum_used = out.flag],
                                       IF out.flag THEN "real_device" ELSE "simulator",
                                       IF out.flag THEN "success" ELSE "info")
    /\ UnitUnchanged /\ ContUnchanged /\ LabUnchanged

\* lines 1119-1123
ClassicalRandomBits ==
    /\ eng.pc = "auto_bits"
    /\ ~(eng.rng_type = "quantum" \/ eng.backend_type = "real_quantum")
    /\ \E bits \in generate_random_bits(eng.num_qubits) :
         eng' = log_message([eng EXCEPT !.pc = "auto_call", !.alice_bits = bits,
                                        !.quantum_used = FALSE, !.rng_path = "classical"],
                            "backend", "info")
    /\ UnitUnchanged /\ ContUnchanged /\ LabUnchanged

\* lines 1125-1131: the bases are drawn and run_manual_simulation is called
AutoCallManual ==
    /\ eng.pc = "auto_call"
    /\ \E bases \in generate_random_bases(Len(eng.alice_bits)),
          variant \in ProtocolVariants :
         eng' = ManualEntry([eng EXCEPT !.caller = "auto"], eng.alice_bits, bases, variant)
    /\ UnitUnchanged /\ ContUnchanged /\ LabUnchanged

\* lines 1133-1147: the result of run_manual_simulation is updated and returned
AutoReturn ==
    /\ eng.pc = "auto_return"
    /\ eng' = [eng EXCEPT !.pc = "done", !.quantum_bits_generated = eng.quantum_used]
    /\ UnitUnchanged /\ ContUnchanged /\ LabUnchanged

\* what the world can do to generate_qrng_key: qiskit not importable, the
\* service refuses the connection, it lists no device, the job fails, the
\* result has no readable measurement data, or all goes well
QrngWorlds == {"qiskit_unavailable", "connect_fails", "no_devices", "job_fails",
               "data_fails", "ok"}

\* while len(qrng_key) < num_bits: qrng_key += qrng_key   (lines 532-533)
RECURSIVE Doubled(_, _)
Doubled(key, num_bits) ==
    IF Len(key) >= num_bits \/ Len(key) = 0 THEN key
    ELSE Doubled(key \o key, num_bits)

QrngLogs(names) == [i \in 1..Len(names) |-> LogEntry("info", names[i])]

QrngOutcome(raised, status, key, logs) ==
    [raised |-> raised, status |-> status, key |-> key, logs |-> logs]

\* generate_qrng_key (lines 424-581): the set of outcomes of a call.  Every
\* exception of the body is caught by the first 'except Exception' clause
\* (lines 562-564), which logs a warning and raises it again; an exception
\* raised in an except clause is not handled by a later clause of the same
\* try, so the classical fallback of lines 566-581 is never run.
generate_qrng_key(num_bits, world) ==
    LET num_qubits == Min(num_bits, RealDeviceQubitCap)
        reraised == <<LogEntry("warning", "runtime_failed")>>
        begun == QrngLogs(<<"qrng_start", "note">>)
        connected == begun \o QrngLogs(<<"connected">>)
        submitted == connected \o QrngLogs(<<"device", "circuit", "submitting">>)
        completed == submitted \o QrngLogs(<<"waiting", "completed">>)
        Widen(key) == Prefix(Doubled(key, num_bits), num_bits)
    IN  IF world = "qiskit_unavailable"
        THEN {QrngOutcome(TRUE, "none", <<>>, reraised)}
        ELSE IF world = "connect_fails"
        THEN {QrngOutcome(TRUE, "none", <<>>, begun \o reraised)}
        ELSE IF world = "no_devices"
        THEN {QrngOutcome(TRUE, "none", <<>>, connected \o reraised)}
        ELSE IF world = "job_fails"
        THEN {QrngOutcome(TRUE, "none", <<>>,
                          submitted \o QrngLogs(<<"waiting", "job_error", "job_status">>)
                              \o reraised)}
        ELSE IF world = "data_fails"
        THEN {QrngOutcome(FALSE, "success", Widen(key),
                          completed \o QrngLogs(<<"data_error", "falling_back",
                                                  "fallback_key", "generated">>)) :
                key \in StringsOfLen(Bit, num_qubits)}
        ELSE {QrngOutcome(FALSE, "success", Widen(key),
                          completed \o QrngLogs(<<"counts", "generated">>)) :
                key \in StringsOfLen(Bit, num_qubits)}

\* one call of generate_qrng_key on a fresh engine (routes.py lines 88, 108)
GenerateQrngKey ==
    /\ eng.pc = "idle"
    /\ \E num_bits \in 0..MaxQrngBits, world \in QrngWorlds :
         \E out \in generate_qrng_key(num_bits, world) :
           eng' = LogAll([eng EXCEPT !.pc = IF out.raised THEN "raised" ELSE "done",
                                     !.mode = "qrng", !.num_bits = num_bits,
                                     !.env = [qiskit |-> world /= "qiskit_unavailable",
                                              hardware |-> world,
                                              simulator |-> "unused"],
                                     !.status = out.status, !.qrng_key = out.key,
                                     !.error = IF out.raised THEN "Exception" ELSE "none"],
                         out.logs)
    /\ UnitUnchanged /\ ContUnchanged /\ LabUnchanged

\* Scenario A of the spec: run_manual_simulation("0110", "+x+x", ...) with
\* noise 0, distance 0 and eve_attack 'none'; the other arguments are free
ScenarioBits == <<"0", "1", "1", "0">>
ScenarioBases == <<"+", "x", "+", "x">>

StartScenarioA ==
    /\ eng.pc = "idle"
    /\ \E variant \in ProtocolVariants :
         eng' = ManualEntry([eng EXCEPT !.args = "scenario_a"],
                            ScenarioBits, ScenarioBases, variant)
    /\ UnitUnchanged /\ ContUnchanged /\ LabUnchanged

\* the engine's stages, shared by the three orchestrators
StageNext ==
    \/ Transmit \/ Intercept \/ Measure \/ Sift \/ ComputeQber \/ Adjust
    \/ SecurityCheck \/ Correct \/ Amplify

ScenarioNext == StartScenarioA \/ StageNext

AutoNext ==
    \/ StartAuto \/ QuantumRandomBits \/ ClassicalRandomBits \/ AutoCallManual
    \/ AutoReturn \/ GenerateQrngKey \/ StageNext

EngNext ==
    \/ StartManual \/ StartContinuousBatch \/ Transmit \/ Intercept \/ Measure
    \/ Sift \/ ComputeQber \/ Adjust \/ SecurityCheck \/ Correct \/ Amplify

-----------------------------------------------------------------------------
(* The pure functions called on their own, on every argument within the    *)
(* bounds.                                                                  *)

\* the amplification factors a call is made with; each is exact in binary
\* floating point, so int(len(key) * factor) is the floor of the product
AmplificationFactors == {Rat(1, 4), Rat(1, 2), Rat(3, 4)}

UnitCall(op, alice, alice_bases, bob, bob_bases, method, amplification_factor) ==
    ucall = [op |-> op, alice |-> alice, alice_bases |-> alice_bases, bob |-> bob,
             bob_bases |-> bob_bases, method |-> method,
             amplification_factor |-> amplification_factor]

UnitCalls ==
    \/ \E a \in Strings(Bit, MaxSiftLen), ab \in Strings(BasisSym, MaxSiftLen),
          b \in Strings(RecvSym, MaxSiftLen), bb \in Strings(BasisSym, MaxSiftLen) :
         UnitCall("sift_keys", a, ab, b, bb, "none", Rat(1, 2))
    \/ \E a \in Strings(Bit, MaxPairLen), b \in Strings(Bit, MaxPairLen) :
         UnitCall("calculate_qber", a, <<>>, b, <<>>, "none", Rat(1, 2))
    \/ \E a \in Strings(Bit, MaxPairLen), b \in Strings(Bit, MaxPairLen),
          m \in ErrorCorrections \cup {"other"} :
         UnitCall("error_correction_cascade", a, <<>>, b, <<>>, m, Rat(1, 2))
    \/ \E a \in Strings(Bit, MaxKeyLen), m \in PrivacyAmplifications,
          f \in AmplificationFactors :
         UnitCall("privacy_amplification", a, <<>>, <<>>, <<>>, m, f)
    \/ \E a \in Strings(RecvSym, MaxSiftLen), m \in EveAttacks :
         \E ab \in StringsOfLen(BasisSym, Len(a)) :
           UnitCall("simulate_eve_attack", a, ab, <<>>, <<>>, m, Rat(1, 2))

Returns(op, val) ==
    /\ ucall.op = op
    /\ ~uret.done
    /\ uret' = [done |-> TRUE, val |-> val]
    /\ UNCHANGED ucall
    /\ EngUnchanged /\ ContUnchanged /\ LabUnchanged

CallSiftKeys ==
    Returns("sift_keys",
            sift_keys(ucall.alice, ucall.alice_bases, ucall.bob, ucall.bob_bases))

CallCalculateQber ==
    Returns("calculate_qber", calculate_qber(ucall.alice, ucall.bob))

CallErrorCorrection ==
    Returns("error_correction_cascade",
            error_correction_cascade(ucall.alice, ucall.bob, ucall.method))

\* amplification_factor is the default 0.5 at every call site that omits it
CallPrivacyAmplification ==
    Returns("privacy_amplification",
            privacy_amplification(ucall.alice, ucall.method, ucall.amplification_factor))

\* the bits are those the channel delivered, '?' among them
CallSimulateEveAttack ==
    \E out \in simulate_eve_attack(ucall.alice, ucall.alice_bases, ucall.method) :
        Returns("simulate_eve_attack", out)

UnitNext ==
    \/ CallSiftKeys \/ CallCalculateQber \/ CallErrorCorrection
    \/ CallPrivacyAmplification \/ CallSimulateEveAttack

-----------------------------------------------------------------------------
(* The continuous simulation of routes.py: the global dict                 *)
(* continuous_simulation, its lock, the background worker threads and the  *)
(* request threads of the three endpoints.  One action is one statement    *)
(* (or one run of statements no other thread can tell apart); the threads  *)
(* interleave between them.  A value that the code computes from the       *)
(* clock and the parameters is modelled by who computed it.                *)

\* len(qber_history) > 100
HistoryCap == 100

Workers == 1..MaxStarts
Pollers == 1..NumPollers

Unset == <<"unset", 0>>
Zero == <<"zero", 0>>
Free == <<"free", 0>>

\* the module-level initial value of continuous_simulation (lines 955-965)
ModuleData ==
    [id |-> 0, qber_history |-> <<>>, key_rate_history |-> <<>>,
     metrics |-> [photons_sent |-> Unset, last_update |-> Unset, qber |-> Unset]]

\* the dict start_continuous_simulation installs (lines 1030-1041)
FreshData(gen) ==
    [id |-> gen, qber_history |-> <<>>, key_rate_history |-> <<>>,
     metrics |-> [photons_sent |-> Zero, last_update |-> Unset, qber |-> Zero]]

ContInit ==
    /\ cs = [running |-> FALSE, start_time |-> 0, parameters |-> 0, data |-> ModuleData]
    /\ lock = Free
    /\ starter = [pc |-> "idle", gen |-> 0]
    /\ stopper = [pc |-> "idle"]
    /\ worker = [w \in Workers |-> [pc |-> "unborn", params |-> 0, elapsed_from |-> 0]]
    /\ poller = [p \in Pollers |-> [pc |-> "idle", sample |-> 0]]
    /\ clock = [starts |-> 0, stops |-> 0, polls |-> 0]

OutsideCont == EngUnchanged /\ UnitUnchanged /\ LabUnchanged

(* start_continuous_simulation *)

\* data = request.get_json()
StartRequest ==
    /\ starter.pc = "idle"
    /\ clock.starts < MaxStarts
    /\ starter' = [pc |-> "acquire", gen |-> clock.starts + 1]
    /\ clock' = [clock EXCEPT !.starts = @ + 1]
    /\ UNCHANGED <<cs, lock, stopper, worker, poller>>
    /\ OutsideCont

\* with continuous_simulation_lock:
StartAcquire ==
    /\ starter.pc = "acquire"
    /\ lock = Free
    /\ lock' = <<"starter", starter.gen>>
    /\ starter' = [starter EXCEPT !.pc = "stop_old"]
    /\ UNCHANGED <<cs, stopper, worker, poller, clock>>
    /\ OutsideCont

\* if continuous_simulation['running']: continuous_simulation['running'] = False
\* (the previous thread is not joined)
StartStopOld ==
    /\ starter.pc = "stop_old"
    /\ cs' = IF cs.running THEN [cs EXCEPT !.running = FALSE] ELSE cs
    /\ starter' = [starter EXCEPT !.pc = "install"]
    /\ UNCHANGED <<lock, stopper, worker, poller, clock>>
    /\ OutsideCont

\* lines 1027-1029: running, start_time, parameters
StartInstall ==
    /\ starter.pc = "install"
    /\ cs' = [cs EXCEPT !.running = TRUE, !.start_time = starter.gen,
                        !.parameters = starter.gen]
    /\ starter' = [starter EXCEPT !.pc = "set_data"]
    /\ UNCHANGED <<lock, stopper, worker, poller, clock>>
    /\ OutsideCont

\* lines 1030-1041: a new 'data' dict replaces the old one
StartSetData ==
    /\ starter.pc = "set_data"
    /\ cs' = [cs EXCEPT !.data = FreshData(starter.gen)]
    /\ starter' = [starter EXCEPT !.pc = "spawn"]
    /\ UNCHANGED <<lock, stopper, worker, poller, clock>>
    /\ OutsideCont

\* the with block ends; threading.Thread(target=..., args=(data,)).start()
StartSpawn ==
    /\ starter.pc = "spawn"
    /\ lock' = Free
    /\ worker' = [worker EXCEPT ![starter.gen] =
                     [pc |-> "loop", params |-> starter.gen, elapsed_from |-> 0]]
    /\ starter' = [starter EXCEPT !.pc = "idle"]
    /\ UNCHANGED <<cs, stopper, poller, clock>>
    /\ OutsideCont

(* _continuous_simulation_worker *)

WorkerLoop_ignores_flag(w) ==
    /\ worker[w].pc = "loop"
    /\ worker' = [worker EXCEPT ![w] =
                     [@ EXCEPT !.pc = "acquire", !.elapsed_from = cs.start_time]]
    /\ UNCHANGED <<cs, lock, starter, stopper, poller, clock>>
    /\ OutsideCont

\* while continuous_simulation['running']: ... elapsed = current_time - start_time
WorkerLoop(w) ==
    /\ worker[w].pc = "loop"
    /\ worker' = [worker EXCEPT ![w] =
                     IF cs.running
                     THEN [@ EXCEPT !.pc = "acquire", !.elapsed_from = cs.start_time]
                     ELSE [@ EXCEPT !.pc = "done"]]
    /\ UNCHANGED <<cs, lock, starter, stopper, poller, clock>>
    /\ OutsideCont

\* with continuous_simulation_lock:
WorkerAcquire(w) ==
    /\ worker[w].pc = "acquire"
    /\ lock = Free
    /\ lock' = <<"worker", w>>
    /\ worker' = [worker EXCEPT ![w].pc = "check"]
    /\ UNCHANGED <<cs, starter, stopper, poller, clock>>
    /\ OutsideCont

\* if continuous_simulation['running']:  (else the block ends, then sleep)
WorkerCheck(w) ==
    /\ worker[w].pc = "check"
    /\ IF cs.running
       THEN /\ worker' = [worker EXCEPT ![w].pc = "update"]
            /\ UNCHANGED lock
       ELSE /\ worker' = [worker EXCEPT ![w].pc = "loop"]
            /\ lock' = Free
    /\ UNCHANGED <<cs, starter, stopper, poller, clock>>
    /\ OutsideCont

WorkerMetrics(metrics, w) ==
    [metrics EXCEPT !.photons_sent = <<"worker", w>>, !.last_update = <<"worker", w>>]

\* continuous_simulation['data']['metrics'].update({...}); the block ends; sleep
WorkerUpdate(w) ==
    /\ worker[w].pc = "update"
    /\ cs' = [cs EXCEPT !.data.metrics = WorkerMetrics(@, w)]
    /\ lock' = Free
    /\ worker' = [worker EXCEPT ![w].pc = "loop"]
    /\ UNCHANGED <<starter, stopper, poller, clock>>
    /\ OutsideCont

(* stop_continuous_simulation: no lock is taken *)

\* if continuous_simulation['running']:  (else 'No continuous simulation was running')
StopRequest ==
    /\ stopper.pc = "idle"
    /\ clock.stops < MaxStops
    /\ stopper' = [pc |-> IF cs.running THEN "set" ELSE "idle"]
    /\ clock' = [clock EXCEPT !.stops = @ + 1]
    /\ UNCHANGED <<cs, lock, starter, worker, poller>>
    /\ OutsideCont

\* continuous_simulation['running'] = False
StopSet ==
    /\ stopper.pc = "set"
    /\ cs' = [cs EXCEPT !.running = FALSE]
    /\ stopper' = [pc |-> "idle"]
    /\ UNCHANGED <<lock, starter, worker, poller, clock>>
    /\ OutsideCont

(* get_continuous_data: no lock is taken *)

\* lines 1096-1122: 'No continuous simulation running' unless running; else
\* the sample (current_qber, key_rate) is computed
PollRequest(p) ==
    /\ poller[p].pc = "idle"
    /\ clock.polls < MaxPolls
    /\ poller' = [poller EXCEPT ![p] =
                     IF cs.running
                     THEN [pc |-> "append_qber", sample |-> clock.polls + 1]
                     ELSE [pc |-> "idle", sample |-> 0]]
    /\ clock' = [clock EXCEPT !.polls = @ + 1]
    /\ UNCHANGED <<cs, lock, starter, stopper, worker>>
    /\ OutsideCont

\* continuous_simulation['data']['qber_history'].append(current_qber)
PollAppendQber(p) ==
    /\ poller[p].pc = "append_qber"
    /\ cs' = [cs EXCEPT !.data.qber_history = Append(@, poller[p].sample)]
    /\ poller' = [poller EXCEPT ![p].pc = "append_key_rate"]
    /\ UNCHANGED <<lock, starter, stopper, worker, clock>>
    /\ OutsideCont

\* continuous_simulation['data']['key_rate_history'].append(key_rate)
PollAppendKeyRate(p) ==
    /\ poller[p].pc = "append_key_rate"
    /\ cs' = [cs EXCEPT !.data.key_rate_history = Append(@, poller[p].sample)]
    /\ poller' = [poller EXCEPT ![p].pc = "trim"]
    /\ UNCHANGED <<lock, starter, stopper, worker, clock>>
    /\ OutsideCont

\* if len(qber_history) > 100: qber_history.pop(0); key_rate_history.pop(0)
\* pop(0) of an empty list raises IndexError, which the handler's except
\* turns into an error response
PollTrim(p) ==
    /\ poller[p].pc = "trim"
    /\ IF Len(cs.data.qber_history) > HistoryCap
       THEN IF Len(cs.data.key_rate_history) = 0
            THEN /\ cs' = [cs EXCEPT !.data.qber_history = Tail(@)]
                 /\ poller' = [poller EXCEPT ![p] = [pc |-> "idle", sample |-> 0]]
            ELSE /\ cs' = [cs EXCEPT !.data.qber_history = Tail(@),
                                     !.data.key_rate_history = Tail(@)]
                 /\ poller' = [poller EXCEPT ![p].pc = "update"]
       ELSE /\ UNCHANGED cs
            /\ poller' = [poller EXCEPT ![p].pc = "update"]
    /\ UNCHANGED <<lock, starter, stopper, worker, clock>>
    /\ OutsideCont

PollMetrics(metrics, sample) ==
    [metrics EXCEPT !.photons_sent = <<"poll", sample>>, !.qber = <<"poll", sample>>]

\* continuous_simulation['data']['metrics'].update({...}); return jsonify(...)
PollUpdateMetrics(p) ==
    /\ poller[p].pc = "update"
    /\ cs' = [cs EXCEPT !.data.metrics = PollMetrics(@, poller[p].sample)]
    /\ poller' = [poller EXCEPT ![p] = [pc |-> "idle", sample |-> 0]]
    /\ UNCHANGED <<lock, starter, stopper, worker, clock>>
    /\ OutsideCont

ContNext ==
    \/ StartRequest \/ StartAcquire \/ StartStopOld \/ StartInstall
    \/ StartSetData \/ StartSpawn
    \/ \E w \in Workers :
         WorkerLoop(w) \/ WorkerAcquire(w) \/ WorkerCheck(w) \/ WorkerUpdate(w)
    \/ StopRequest \/ StopSet
    \/ \E p \in Pollers :
         \/ PollRequest(p) \/ PollAppendQber(p) \/ PollAppendKeyRate(p)
         \/ PollTrim(p) \/ PollUpdateMetrics(p)

-----------------------------------------------------------------------------
(* The metrics operations: calculate_advanced_metrics and                  *)
(* _calculate_dynamic_metrics of the engine, get_advanced_lab_metrics of   *)
(* the lab simulator.  A call is made on a result record and made again on *)
(* the same record.  A float that the code computes with pow or log is a   *)
(* term that names the function and its arguments.                         *)

\* the points of [a, b] that stand for random.uniform(a, b): the low end
\* and the middle
Uniform(a, b) == {Reduce(a), Reduce(RatDiv(RatAdd(a, b), RatOfInt(2)))}

QberSamples == {RatZero, Rat(1, 10), Rat(1, 2), RatOne}

\* lines 289-297: self.quantum_state_fidelity
QuantumStateFidelities(backend_type) ==
    IF backend_type = "real_quantum"
    THEN {RatAdd(Rat(85, 100), u) : u \in Uniform(Rat(0 - 1, 10), Rat(1, 10))}
    ELSE IF backend_type = "qiskit"
    THEN {RatAdd(Rat(95, 100), u) : u \in Uniform(Rat(0 - 5, 100), Rat(5, 100))}
    ELSE {RatOne}

\* lines 300-303: self.decoherence_rate_ns
DecoherenceRates(backend_type) ==
    IF backend_type = "real_quantum" THEN Uniform(RatOfInt(50), RatOfInt(150))
    ELSE Uniform(RatOfInt(100), RatOfInt(200))

\* lines 314-319: self.gate_error_rate_percent
GateErrorRates(backend_type) ==
    IF backend_type = "real_quantum" THEN Uniform(Rat(1, 10), RatOne)
    ELSE IF backend_type = "qiskit" THEN Uniform(Rat(1, 100), Rat(1, 10))
    ELSE {RatZero}

\* line 322: self.detector_jitter_ps
DetectorJitters == Uniform(RatOfInt(20), RatOfInt(100))

\* lines 306-311
PrivacyAmplificationRatio(result) ==
    IF Len(result.alice_sifted) > 0
    THEN Rat(Len(result.final_key), Len(result.alice_sifted))
    ELSE RatZero

\* the set of dicts one call of calculate_advanced_metrics can return
calculate_advanced_metrics(result) ==
    { [quantum_state_fidelity |-> Round(fidelity, 4),
       decoherence_rate_ns |-> Round(decoherence, 2),
       privacy_amplification_ratio |-> Round(PrivacyAmplificationRatio(result), 4),
       gate_error_rate_percent |-> Round(gate_error, 4),
       detector_jitter_ps |-> Round(jitter, 2),
       entanglement_fidelity |-> Round(RatMul(fidelity, Rat(9, 10)), 4)] :
        fidelity \in QuantumStateFidelities(result.backend_type),
        decoherence \in DecoherenceRates(result.backend_type),
        gate_error \in GateErrorRates(result.backend_type),
        jitter \in DetectorJitters }

Clamp(lo, x, hi) == RatMax(lo, RatMin(hi, x))

\* the dict _calculate_dynamic_metrics returns (the definition at line 1223,
\* which replaces the two before it); no branch of it can raise on a result
\* whose fields are numbers
calculate_dynamic_metrics(result) ==
    LET qber == result.qber
        key_length == RatOfInt(result.final_key_length)
        photons_transmitted == result.photons_transmitted
        simulation_time == result.simulation_time
        hundred == RatOfInt(100)
        quantum_score == Clamp(RatZero, RatSub(hundred, RatMul(qber, RatOfInt(10))),
                               hundred)
        classical_score == Clamp(RatZero, RatSub(RatOfInt(85), RatMul(qber, RatOfInt(5))),
                                 hundred)
        security_level == Clamp(RatZero,
                                RatMul(RatSub(RatOne, RatDiv(qber, Rat(11, 100))), hundred),
                                hundred)
        speed_index == IF RatLess(RatZero, simulation_time)
                       THEN Clamp(RatZero,
                                  RatMul(RatDiv(RatDiv(key_length, simulation_time),
                                                RatOfInt(10)), hundred),
                                  hundred)
                       ELSE RatZero
        channel_efficiency == IF photons_transmitted > 0
                              THEN RatMul(RatDiv(key_length, RatOfInt(photons_transmitted)),
                                          hundred)
                              ELSE RatZero
        quantum_fidelity == RatMax(Rat(1, 2), RatSub(RatOne, RatMul(qber, RatOfInt(2))))
    IN  [quantum_score |-> Round(quantum_score, 1),
         classical_score |-> Round(classical_score, 1),
         security_level |-> Round(security_level, 1),
         speed_index |-> Round(speed_index, 1),
         channel_efficiency |-> Round(channel_efficiency, 2),
         quantum_fidelity |-> Round(quantum_fidelity, 3),
         error_rate |-> Round(RatMul(qber, hundred), 2),
         dynamic_metrics_calculated |-> TRUE]

\* H2(qber) * sifted_key_length for 0 < qber < 0.5, where
\* H2(p) = -p*log2(p) - (1-p)*log2(1-p) is irrational
EntropyTimes(qber, n) == <<"H2_times", qber[1], qber[2], n>>
RoundTerm(term, digits) == <<"round", term, digits>>

\* -math.log2(1e-10) = 33.2192..., round(., 2) = 33.22
SecurityParameterBits == Rat(3322, 100)
\* the largest sifted_key_length for which max(0, sifted_key_length -
\* total_info_leaked - security_parameter_bits) is 0 whatever was leaked
MaxInsecureLength == 33

\* lines 790-856 of lab_simulator.py
calculate_privacy_amplification_ratio(sifted_key_length, final_key_length, qber) ==
    IF sifted_key_length = 0
    THEN [privacy_amplification_ratio |-> RatZero,
          compression_factor |-> RatZero,
          information_leaked_bits |-> RatZero,
          security_parameter |-> RatZero,
          min_final_key_length |-> 0,
          efficiency |-> RatZero]
    ELSE LET pa_ratio == Rat(final_key_length, sifted_key_length)
             in_range == RatLess(RatZero, qber) /\ RatLess(qber, Rat(1, 2))
             min_secure_length ==
                 IF sifted_key_length <= MaxInsecureLength THEN 0
                 ELSE <<"min_secure_length", sifted_key_length, qber>>
         IN  [privacy_amplification_ratio |-> Round(pa_ratio, 4),
              compression_factor |-> Round(RatSub(RatOne, pa_ratio), 4),
              information_leaked_bits |->
                  IF in_range
                  THEN RoundTerm(EntropyTimes(qber, sifted_key_length), 2)
                  ELSE Round(RatOfInt(sifted_key_length), 2),
              security_parameter |-> SecurityParameterBits,
              min_final_key_length |-> min_secure_length,
              efficiency |-> IF min_secure_length = 0 THEN RatZero
                             ELSE <<"efficiency", pa_ratio, min_secure_length>>,
              theoretical_max_ratio |->
                  IF min_secure_length = 0 THEN RatZero
                  ELSE <<"ratio", min_secure_length, sifted_key_length>>,
              qber_entropy |-> IF in_range THEN RoundTerm(EntropyTimes(qber, 1), 4)
                               ELSE RatZero]

\* [int(b) for b in bits if b.isdigit()]
RECURSIVE Digits(_)
Digits(bits) ==
    IF bits = <<>> THEN <<>>
    ELSE (IF Head(bits) \in Bit THEN <<Head(bits)>> ELSE <<>>) \o Digits(Tail(bits))

\* lines 726-788: 0.0 without bits or without a matching basis, else
\* min(correct / matching * (factors of the simulator's parameters), 0.95)
calculate_quantum_state_fidelity(alice_bits, bob_bits, alice_bases, bob_bases) ==
    LET min_length == Min(Min(Len(alice_bits), Len(bob_bits)),
                          Min(Len(alice_bases), Len(bob_bases)))
        matching == {i \in 1..min_length : alice_bases[i] = bob_bases[i]}
        correct == {i \in matching : alice_bits[i] = bob_bits[i]}
    IN  IF alice_bits = <<>> \/ bob_bits = <<>> \/ matching = {} THEN RatZero
        ELSE IF correct = {} THEN RatZero
        ELSE <<"fidelity", Cardinality(correct), Cardinality(matching)>>

\* lines 686-724: clamped to [1000, 1e9]; the rate is proportional to the
\* transmission time, which is 0 at distance 0
calculate_decoherence_rate(transmission_time_ns, channel_length_km) ==
    IF channel_length_km = 0 THEN RatOfInt(1000)
    ELSE <<"decoherence_rate", transmission_time_ns, channel_length_km>>

\* lines 858-929; the keys that are rounded functions of decoherence_rate and
\* quantum_fidelity alone are left out
get_advanced_lab_metrics(simulation_result) ==
    LET alice_bits == Digits(simulation_result.alice_bits)
        bob_bits == Digits(simulation_result.bob_bits)
        sifted_key == simulation_result.alice_sifted
        final_key == simulation_result.final_key
        qber == simulation_result.qber
        distance == simulation_result.distance
        transmission_time_ns == distance * 5
        decoherence_rate == calculate_decoherence_rate(transmission_time_ns, distance)
        quantum_fidelity ==
            calculate_quantum_state_fidelity(alice_bits, bob_bits,
                                             simulation_result.alice_bases,
                                             simulation_result.bob_bases)
        privacy_metrics ==
            calculate_privacy_amplification_ratio(Len(sifted_key), Len(final_key), qber)
    IN  [decoherence_rate_hz |-> decoherence_rate,
         quantum_state_fidelity |-> quantum_fidelity,
         privacy_amplification_ratio |-> privacy_metrics.privacy_amplification_ratio,
         pa_compression_factor |-> privacy_metrics.compression_factor,
         pa_information_leaked_bits |-> privacy_metrics.information_leaked_bits,
         pa_efficiency |-> privacy_metrics.efficiency,
         pa_security_parameter |-> privacy_metrics.security_parameter,
         transmission_time_ns |-> RatOfInt(transmission_time_ns)]

\* the bound on the sequences of a result record handed to a metrics call
MaxMetricLen == 2

\* what became of Alice's bits on the way to Bob in a result record
Arrivals(alice_bits) ==
    {alice_bits}
    \cup (IF alice_bits = <<>> THEN {}
          ELSE {[alice_bits EXCEPT ![1] = Flip(alice_bits[1])],
                [alice_bits EXCEPT ![1] = Lost]})

Prefixes(s) == {Prefix(s, k) : k \in 0..Len(s)}

MetricsCall(op, result) == ucall = [op |-> op, result |-> result]

\* a call of one of the three operations on a result record, or of
\* calculate_privacy_amplification_ratio on its three arguments
MetricsCalls ==
    \/ \E op \in {"calculate_advanced_metrics", "_calculate_dynamic_metrics",
                  "get_advanced_lab_metrics"},
          alice_bits \in Strings(Bit, MaxMetricLen), backend_type \in BackendTypes,
          qber \in QberSamples, distance \in {0, 10}, photons_transmitted \in {0, 100} :
         \E bob_bits \in Arrivals(alice_bits),
            bob_bases \in {[i \in 1..Len(alice_bits) |-> "+"],
                           [i \in 1..Len(alice_bits) |-> "x"]},
            alice_sifted \in Prefixes(alice_bits) :
           \E final_key \in Prefixes(alice_sifted) :
             MetricsCall(op, [backend_type |-> backend_type,
                              alice_bits |-> alice_bits,
                              alice_bases |-> [i \in 1..Len(alice_bits) |-> "+"],
                              bob_bits |-> bob_bits, bob_bases |-> bob_bases,
                              alice_sifted |-> alice_sifted, final_key |-> final_key,
                              qber |-> qber, distance |-> distance,
                              final_key_length |-> Len(final_key),
                              photons_transmitted |-> photons_transmitted,
                              simulation_time |-> RatOne])
    \/ \E sifted_key_length \in 0..MaxKeyLen, qber \in QberSamples :
         \E final_key_length \in 0..sifted_key_length :
           ucall = [op |-> "calculate_privacy_amplification_ratio",
                    sifted_key_length |-> sifted_key_length,
                    final_key_length |-> final_key_length, qber |-> qber]

NotCalled == [done |-> FALSE, again |-> FALSE, val |-> <<>>, val2 |-> <<>>]

\* the first call, then the second call on the same arguments
MetricsReturns(op, vals) ==
    /\ ucall.op = op
    /\ ~uret.again
    /\ \E val \in vals :
         uret' = IF uret.done THEN [uret EXCEPT !.again = TRUE, !.val2 = val]
                 ELSE [uret EXCEPT !.done = TRUE, !.val = val]
    /\ UNCHANGED ucall
    /\ EngUnchanged /\ ContUnchanged /\ LabUnchanged

CallAdvancedMetrics ==
    /\ ucall.op = "calculate_advanced_metrics"
    /\ MetricsReturns("calculate_advanced_metrics",
                      calculate_advanced_metrics(ucall.result))

CallDynamicMetrics ==
    /\ ucall.op = "_calculate_dynamic_metrics"
    /\ MetricsReturns("_calculate_dynamic_metrics",
                      {calculate_dynamic_metrics(ucall.result)})

CallLabMetrics ==
    /\ ucall.op = "get_advanced_lab_metrics"
    /\ MetricsReturns("get_advanced_lab_metrics",
                      {get_advanced_lab_metrics(ucall.result)})

CallPrivacyAmplificationRatio ==
    /\ ucall.op = "calculate_privacy_amplification_ratio"
    /\ MetricsReturns("calculate_privacy_amplification_ratio",
                      {calculate_privacy_amplification_ratio(
                           ucall.sifted_key_length, ucall.final_key_length, ucall.qber)})

MetricsNext ==
    \/ CallAdvancedMetrics \/ CallDynamicMetrics \/ CallLabMetrics
    \/ CallPrivacyAmplificationRatio

-----------------------------------------------------------------------------
(* BB84LabSimulator.run_simulation: the counters of the simulator and the  *)
(* locals of the run.  One action is the reset at the start, one pass of   *)
(* the transmission loop, one pass of the reconciliation loop, or the tail *)
(* that computes the QBER and the final key.  Bits are 0 and 1.            *)

AttackTypes == {"No Attack", "Intercept-Resend", "Beam Splitting",
                "Photon Number Splitting", "Trojan Horse Attack"}
LabVariants == {"bb84", "six-state"}
\* the bases alice_prepares_photon and bob_measures_photon draw from
LabBases(variant) ==
    IF variant = "six-state" THEN {"rectilinear", "diagonal", "circular"}
    ELSE {"rectilinear", "diagonal"}
\* self.eve_interception_rate: never, sometimes, always
InterceptionRates == {RatZero, Rat(1, 2), RatOne}

\* QuantumPhoton; polarization and intensity decide no branch of the run
QuantumPhoton(bit_value, basis) ==
    [bit_value |-> bit_value, basis |-> basis, detected |-> FALSE, corrupted |-> FALSE]
NoPhoton == QuantumPhoton(0, "none")

\* after reset_parameters
LabIdle ==
    [pc |-> "idle", runs |-> 0, num_photons |-> 0, i |-> 0,
     current_protocol_variant |-> "bb84", attack_strategy |-> "No Attack",
     eve_interception_rate |-> RatZero, is_running |-> FALSE,
     photons_sent |-> 0, photons_received |-> 0, basis_matches |-> 0,
     final_key_bits |-> 0, photon |-> NoPhoton,
     alice_bits |-> <<>>, alice_bases |-> <<>>, bob_bits |-> <<>>, bob_bases |-> <<>>,
     detected_photons |-> <<>>, sifted_key_alice |-> <<>>, sifted_key_bob |-> <<>>,
     qber |-> RatZero]

\* the photons lab_simulator.simulate_eve_attack can return (lines 130-161)
lab_simulate_eve_attack(photon, attack_strategy, eve_interception_rate) ==
    (IF RatLess(eve_interception_rate, RatOne) THEN {photon} ELSE {})
    \cup
    (IF ~RatLess(RatZero, eve_interception_rate) THEN {}
     ELSE IF attack_strategy = "Intercept-Resend"
     THEN {photon,
           [photon EXCEPT !.corrupted = TRUE],
           [photon EXCEPT !.corrupted = TRUE, !.bit_value = 1 - photon.bit_value]}
     ELSE IF attack_strategy = "Beam Splitting"
     THEN {photon, [photon EXCEPT !.detected = FALSE, !.corrupted = TRUE]}
     ELSE IF attack_strategy \in {"Photon Number Splitting", "Trojan Horse Attack"}
     THEN {photon, [photon EXCEPT !.corrupted = TRUE]}
     ELSE {photon})

\* the <<measured_bit, bob_basis, detected>> bob_measures_photon can return:
\* not detected (bit 0), a dark count (any bit, not detected), a measurement
\* in the photon's basis (the bit, or the other bit with the error
\* probability of at least 0.01), a measurement in another basis (any bit)
bob_measures_photon(photon, variant) ==
    { <<0, bob_basis, FALSE>> : bob_basis \in LabBases(variant) }
    \cup { <<bit, bob_basis, FALSE>> : bit \in {0, 1}, bob_basis \in LabBases(variant) }
    \cup { <<bit, bob_basis, TRUE>> : bit \in {0, 1}, bob_basis \in LabBases(variant) }

\* lines 226-232
lab_calculate_qber(sifted_key_alice, sifted_key_bob) ==
    IF Len(sifted_key_alice) = 0 THEN RatZero
    ELSE Rat(Mismatches(sifted_key_alice, sifted_key_bob), Len(sifted_key_alice))

\* self.qber_threshold_percent / 100.0
LabQberThreshold == Rat(85, 1000)

\* the keys lab_simulator.privacy_amplification can return (lines 234-244):
\* none above the threshold, the whole key at qber 0 (secure_fraction 1);
\* for 0 < qber <= 0.085 the first int(len * (1 - 2 * H2(qber))) bits, which
\* are fewer than len
lab_privacy_amplification(key_bits, qber) ==
    IF RatLess(LabQberThreshold, qber) THEN {<<>>}
    ELSE IF qber[1] = 0 THEN {key_bits}
    ELSE {Prefix(key_bits, k) : k \in 0..(Len(key_bits) - 1)}

\* lines 254-281: the counters are reset and the lists are empty
LabRunSimulation ==
    /\ lab.pc \in {"idle", "returned"}
    /\ lab.runs < MaxLabRuns
    /\ \E num_photons \in 0..MaxPhotons, variant \in LabVariants,
          attack_strategy \in AttackTypes, rate \in InterceptionRates :
         lab' = [LabIdle EXCEPT !.pc = "transmit", !.runs = lab.runs + 1,
                                !.num_photons = num_photons,
                                !.current_protocol_variant = variant,
                                !.attack_strategy = attack_strategy,
                                !.eve_interception_rate = rate,
                                !.is_running = TRUE]
    /\ EngUnchanged /\ UnitUnchanged /\ ContUnchanged

\* lines 285-308: one pass of the transmission loop.  The channel passes the
\* photon or not (its transmission is strictly between 0 and 1), and a
\* corrupted photon is dropped half of the time
LabTransmitPhoton ==
    /\ lab.pc = "transmit"
    /\ lab.i < lab.num_photons
    /\ \E bit_value \in {0, 1}, basis \in LabBases(lab.current_protocol_variant),
          passes \in BOOLEAN :
         \E photon \in lab_simulate_eve_attack(QuantumPhoton(bit_value, basis),
                                               lab.attack_strategy,
                                               lab.eve_interception_rate) :
           \E m \in bob_measures_photon(photon, lab.current_protocol_variant) :
             LET sent == [lab EXCEPT !.i = lab.i + 1,
                                     !.photon = photon,
                                     !.alice_bits = Append(lab.alice_bits, bit_value),
                                     !.alice_bases = Append(lab.alice_bases, basis),
                                     !.photons_sent = lab.photons_sent + 1]
             IN  lab' = IF passes /\ m[3]
                        THEN [sent EXCEPT
                                !.bob_bits = Append(lab.bob_bits, m[1]),
                                !.bob_bases = Append(lab.bob_bases, m[2]),
                                !.detected_photons = Append(lab.detected_photons, lab.i),
                                !.photons_received = lab.photons_received + 1]
                        ELSE sent
    /\ EngUnchanged /\ UnitUnchanged /\ ContUnchanged

\* line 312: the loop is over
LabTransmissionComplete ==
    /\ lab.pc = "transmit"
    /\ lab.i = lab.num_photons
    /\ lab' = [lab EXCEPT !.pc = "reconcile", !.i = 0]
    /\ EngUnchanged /\ UnitUnchanged /\ ContUnchanged

LabReconcileOne_counts_every_photon ==
    /\ lab.pc = "reconcile"
    /\ lab.i < Len(lab.detected_photons)
    /\ LET i == lab.i + 1
           photon_idx == lab.detected_photons[i] + 1
       IN  lab' = IF lab.alice_bases[photon_idx] = lab.bob_bases[i]
                  THEN [lab EXCEPT
                          !.i = i,
                          !.sifted_key_alice =
                              Append(lab.sifted_key_alice, lab.alice_bits[photon_idx]),
                          !.sifted_key_bob = Append(lab.sifted_key_bob, lab.bob_bits[i]),
                          !.basis_matches = lab.basis_matches + 1]
                  ELSE [lab EXCEPT !.i = i, !.basis_matches = lab.basis_matches + 1]
    /\ EngUnchanged /\ UnitUnchanged /\ ContUnchanged

\* lines 319-323: one pass of the reconciliation loop; photon_idx counts
\* from 0
LabReconcileOne ==
    /\ lab.pc = "reconcile"
    /\ lab.i < Len(lab.detected_photons)
    /\ LET i == lab.i + 1
           photon_idx == lab.detected_photons[i] + 1
       IN  lab' = IF lab.alice_bases[photon_idx] = lab.bob_bases[i]
                  THEN [lab EXCEPT
                          !.i = i,
                          !.sifted_key_alice =
                              Append(lab.sifted_key_alice, lab.alice_bits[photon_idx]),
                          !.sifted_key_bob = Append(lab.sifted_key_bob, lab.bob_bits[i]),
                          !.basis_matches = lab.basis_matches + 1]
                  ELSE [lab EXCEPT !.i = i]
    /\ EngUnchanged /\ UnitUnchanged /\ ContUnchanged

\* lines 325-365: the QBER, the final key and the result
LabFinish ==
    /\ lab.pc = "reconcile"
    /\ lab.i = Len(lab.detected_photons)
    /\ LET qber == lab_calculate_qber(lab.sifted_key_alice, lab.sifted_key_bob)
       IN  \E final_key \in lab_privacy_amplification(lab.sifted_key_alice, qber) :
             lab' = [lab EXCEPT !.pc = "returned", !.qber = qber,
                                !.is_running = FALSE,
                                !.final_key_bits = IF RatLess(LabQberThreshold, qber)
                                                   THEN 0 ELSE Len(final_key)]
    /\ EngUnchanged /\ UnitUnchanged /\ ContUnchanged

LabNext ==
    \/ LabRunSimulation \/ LabTransmitPhoton \/ LabTransmissionComplete
    \/ LabReconcileOne \/ LabFinish

-----------------------------------------------------------------------------
(* The specifications.                                                      *)

UnitInit == UnitCalls /\ uret = NoReturn /\ eng = EngIdle /\ ContInit /\ lab = LabIdle
Init == ucall = NoCall /\ uret = NoReturn /\ eng = EngIdle /\ ContInit /\ lab = LabIdle

Next == EngNext
Spec == Init /\ [][Next]_vars

UnitSpec == UnitInit /\ [][UnitNext]_vars

ContSpec == Init /\ [][ContNext]_vars

AutoSpec == Init /\ [][AutoNext]_vars

ScenarioSpec == Init /\ [][ScenarioNext]_vars

LabSpec == Init /\ [][LabNext]_vars

\* the threads of the continuous simulation under a fair scheduler: a worker
\* thread and a request thread inside start_continuous_simulation that can
\* take a step eventually take it
ContFairness ==
    /\ \A w \in Workers :
         /\ WF_vars(WorkerLoop(w)) /\ WF_vars(WorkerAcquire(w))
         /\ WF_vars(WorkerCheck(w)) /\ WF_vars(WorkerUpdate(w))
    /\ WF_vars(StartAcquire) /\ WF_vars(StartStopOld) /\ WF_vars(StartInstall)
    /\ WF_vars(StartSetData) /\ WF_vars(StartSpawn)
    /\ WF_vars(StopSet)

ContFairSpec == Init /\ [][ContNext]_vars /\ ContFairness

MetricsInit ==
    MetricsCalls /\ uret = NotCalled /\ eng = EngIdle /\ ContInit /\ lab = LabIdle
MetricsSpec == MetricsInit /\ [][MetricsNext]_vars

-----------------------------------------------------------------------------
(* The claims.                                                              *)

IsBitString(s) == \A i \in 1..Len(s) : s[i] \in Bit
Differing(a, b) == {i \in 1..Min(Len(a), Len(b)) : a[i] /= b[i]}
Decided == eng.pc \in {"correct", "amplify", "done"}
Corrected == eng.pc \in {"amplify", "done"} \/ (eng.pc = "raised" /\ eng.error = "TypeError")
Amplified == eng.pc = "done" \/ (eng.pc = "raised" /\ eng.error = "TypeError")

KeptPositions(c) ==
    {i \in 1..Min(Min(Len(c.alice), Len(c.alice_bases)), Min(Len(c.bob), Len(c.bob_bases))) :
        c.alice_bases[i] = c.bob_bases[i] /\ c.bob[i] /= Lost}
\* the j-th kept position, counting from 1 in increasing order
NthOf(K, j) == CHOOSE i \in K : Cardinality({k \in K : k < i}) = j - 1

\* C2: sift_keys returns Alice's and Bob's symbols at exactly the kept
\* positions, in increasing order of position; so the two results have the
\* same length, which is at most len(alice_bits).
C2_SiftKeepsMatchingDetected ==
    (ucall.op = "sift_keys" /\ uret.done) =>
        LET K == KeptPositions(ucall)
        IN  /\ Len(uret.val[1]) = Cardinality(K)
            /\ Len(uret.val[2]) = Cardinality(K)
            /\ \A j \in 1..Cardinality(K) :
                 /\ uret.val[1][j] = ucall.alice[NthOf(K, j)]
                 /\ uret.val[2][j] = ucall.bob[NthOf(K, j)]
            /\ Len(uret.val[1]) <= Len(ucall.alice)

\* a call that keeps the first and the third position and drops the second,
\* whose bases agree but whose photon was lost
C2_Witness ==
    /\ ucall.op = "sift_keys" /\ uret.done
    /\ Len(ucall.alice) = 3
    /\ KeptPositions(ucall) = {1, 3}
    /\ ucall.alice_bases[2] = ucall.bob_bases[2] /\ ucall.bob[2] = Lost
    /\ Len(uret.val[1]) = 2

\* C3: calculate_qber returns the number of differing positions divided by
\* len(alice_key) when both keys are non-empty, and 1.0 when either is empty.
C3_QberIsMismatchFraction ==
    (ucall.op = "calculate_qber" /\ uret.done) =>
        IF Len(ucall.alice) > 0 /\ Len(ucall.bob) > 0
        THEN uret.val[1] * Len(ucall.alice)
                 = Cardinality(Differing(ucall.alice, ucall.bob)) * uret.val[2]
        ELSE uret.val[1] = uret.val[2]

\* a call on two keys of four bits that differ in one place, and a call on an
\* empty key, cannot be one state: the witness is the first
C3_Witness ==
    /\ ucall.op = "calculate_qber" /\ uret.done
    /\ Len(ucall.alice) = 4 /\ Len(ucall.bob) = 4
    /\ Cardinality(Differing(ucall.alice, ucall.bob)) = 1
    /\ uret.val = <<1, 4>>

\* C4 (as claimed): a run that ends with an empty sifted key reports qber 1.0,
\* an empty final key and is_secure = false.
C4_EmptySiftedReportsOne ==
    (eng.pc = "done" /\ eng.alice_sifted = <<>>) =>
        /\ eng.qber[1] = eng.qber[2]
        /\ eng.final_key = <<>>
        /\ ~eng.is_secure

\* C5: the qber a run reports is between 0 and 1.
C5_QberInUnitInterval ==
    Decided => /\ eng.qber[2] > 0
               /\ 0 <= eng.qber[1]
               /\ eng.qber[1] <= eng.qber[2]

\* a SARG04 run whose raw qber 1.0 (two sifted bits, both wrong) was
\* multiplied by 1.1 and capped at 0.5
C5_Witness ==
    /\ eng.pc = "done"
    /\ eng.protocol_variant = "sarg04"
    /\ Len(eng.alice_sifted) = 2
    /\ Cardinality(Differing(eng.alice_sifted, eng.bob_sifted)) = 2
    /\ eng.qber[1] * 2 = eng.qber[2]

\* C6 (as claimed): whatever the privacy amplification method, the final key
\* is a bit string no longer than the corrected key, which is no longer than
\* the sifted key.
C6_FinalKeyIsShorterBitString ==
    Amplified =>
        /\ IsBitString(eng.final_key)
        /\ Len(eng.final_key) <= Len(eng.alice_corrected)
        /\ Len(eng.alice_corrected) <= Len(eng.alice_sifted)

\* C7: after error correction with cascade, winnow or ldpc, errors_corrected
\* is the number of positions where the sifted keys differed and both
\* corrected keys are Alice's sifted key; with none, the sifted keys come
\* back unmodified with errors_corrected = 0.
C7_ErrorCorrectionContract ==
    Corrected =>
        IF eng.error_correction = "none"
        THEN /\ eng.alice_corrected = eng.alice_sifted
             /\ eng.bob_corrected = eng.bob_sifted
             /\ eng.errors_corrected = 0
        ELSE /\ eng.errors_corrected
                  = Cardinality(Differing(eng.alice_sifted, eng.bob_sifted))
             /\ eng.alice_corrected = eng.alice_sifted
             /\ eng.bob_corrected = eng.alice_sifted

\* a winnow correction of a sifted pair that differed in one of two places
C7_Witness ==
    /\ eng.pc = "amplify"
    /\ eng.error_correction = "winnow"
    /\ Len(eng.alice_sifted) = 2
    /\ eng.errors_corrected = 1
    /\ eng.bob_sifted /= eng.alice_sifted
    /\ eng.bob_corrected = eng.alice_sifted

\* C8 (as claimed): a worker of an earlier start never writes into the state
\* a later start installed: the metrics of the installed 'data' dict were
\* last updated, if at all, by the worker spawned for that dict.
C8_StaleWorkerNeverWrites ==
    cs.data.metrics.last_update \in {Unset, <<"worker", cs.data.id>>}

\* C9 (as claimed): a step of get_continuous_data leaves the shared state
\* (metrics and histories, with the rest of continuous_simulation) as it was.
C9_PollOnlyReads == [][poller' /= poller => cs' = cs]_vars

Quiescent ==
    /\ \A p \in Pollers : poller[p].pc = "idle"
    /\ starter.pc = "idle"

\* C10 (as claimed): whenever no start and no poll is under way, the two
\* histories have the same length, at most 100.
C10_HistoriesAligned ==
    Quiescent =>
        /\ Len(cs.data.qber_history) = Len(cs.data.key_rate_history)
        /\ Len(cs.data.qber_history) <= HistoryCap

\* C11 (as claimed): a call of run_manual_simulation that is rejected for
\* len(bits) /= len(bases) leaves the engine's simulation_logs as they were
\* before the call.
C11_RejectionLeavesLogsUnchanged ==
    [][(eng.pc = "idle" /\ eng'.pc = "raised" /\ eng'.error = "ValueError")
          => eng'.simulation_logs = eng.simulation_logs]_vars

HardwareFailed == eng.env.hardware \in {"connect_fails", "job_fails"}
QuantumBranch == eng.rng_type = "quantum" \/ eng.backend_type = "real_quantum"
BitsGenerated == eng.pc = "auto_call" \/ eng.caller = "auto"

\* C12: generate_quantum_random_bits never raises; its bits come from the
\* simulator only after the hardware failed and from the classical generator
\* only when qiskit is missing or the simulator failed too; its flag, and
\* quantum_bits_generated in the result of run_auto_simulation, is true only
\* when the bits came from the hardware.
C12_QuantumFlagOnlyFromHardware ==
    /\ ~(eng.mode = "auto" /\ eng.pc = "raised")
    /\ (BitsGenerated /\ QuantumBranch) =>
         /\ eng.quantum_used => (eng.rng_path = "hardware" /\ eng.env.hardware = "ok")
         /\ eng.rng_path = "simulator" => (HardwareFailed /\ eng.env.simulator = "ok")
         /\ eng.rng_path = "classical" =>
              (~eng.env.qiskit \/ (HardwareFailed /\ eng.env.simulator = "fails"))
    /\ (BitsGenerated /\ ~QuantumBranch) => ~eng.quantum_used
    /\ (eng.pc = "done" /\ eng.caller = "auto") =>
         /\ eng.quantum_bits_generated = eng.quantum_used
         /\ eng.quantum_bits_generated => eng.rng_path = "hardware"

\* a returned run whose job failed on the device, whose simulator failed
\* too, and whose one bit came from the classical generator, unflagged
C12_Witness ==
    /\ eng.pc = "done" /\ eng.caller = "auto"
    /\ eng.env.hardware = "job_fails" /\ eng.env.simulator = "fails"
    /\ eng.rng_path = "classical"
    /\ Len(eng.alice_bits) = 1
    /\ ~eng.quantum_bits_generated

\* C13 (as claimed): when the quantum device fails (no qiskit, no connection,
\* no device, a failed job), generate_qrng_key returns status 'fallback' with
\* a key of num_bits bits instead of raising.
C13_QrngFallsBackInsteadOfRaising ==
    (eng.mode = "qrng"
        /\ eng.env.hardware \in {"qiskit_unavailable", "connect_fails", "no_devices",
                                 "job_fails"}) =>
        /\ eng.pc = "done"
        /\ eng.status = "fallback"
        /\ Len(eng.qrng_key) = eng.num_bits
        /\ IsBitString(eng.qrng_key)

\* C14 (as claimed): every warning or error that the fallback of the quantum
\* random source logged during a run of run_auto_simulation is an entry of
\* the logs of the result that run returns.
C14_RecoveredErrorsAreInResultLogs ==
    (eng.pc = "done" /\ eng.caller = "auto") =>
        \A i \in 1..Len(eng.rng_logs) :
            eng.rng_logs[i].level \in {"warning", "error"} =>
                \E j \in 1..Len(eng.simulation_logs) :
                    eng.simulation_logs[j] = eng.rng_logs[i]

NoiselessMatched ==
    /\ eng.pc = "done"
    /\ eng.noise = RatZero
    /\ eng.eve_attack = "none"
    /\ eng.bob_bases = eng.alice_bases

ScenarioADone == eng.pc = "done" /\ eng.args = "scenario_a"
BobMatchesSomewhere ==
    \E i \in 1..Len(eng.alice_bases) : eng.bob_bases[i] = eng.alice_bases[i]

\* C16 (as claimed): Scenario A always returns channel_error_rate 0, qber 0
\* and is_secure true.
C16_ScenarioAIsSecure ==
    ScenarioADone =>
        /\ eng.channel_error_rate[1] = 0
        /\ eng.qber[1] = 0
        /\ eng.is_secure

\* C16 (amended): Scenario A always returns channel_error_rate 0; it returns
\* qber 0 and is_secure true when the bases Bob drew match Alice's in at
\* least one position, and an empty sifted key with is_secure false when
\* they match in none.
C16_ScenarioASecureIfBobMatches ==
    ScenarioADone =>
        /\ eng.channel_error_rate[1] = 0
        /\ BobMatchesSomewhere => (eng.qber[1] = 0 /\ eng.is_secure)
        /\ ~BobMatchesSomewhere => (eng.alice_sifted = <<>> /\ ~eng.is_secure)

\* Bob drew "++++": positions 1 and 3 are sifted and the run is secure
C16_Witness ==
    /\ ScenarioADone
    /\ eng.bob_bases = <<"+", "+", "+", "+">>
    /\ eng.alice_sifted = <<"0", "1">>
    /\ eng.qber[1] = 0
    /\ eng.is_secure

StandardReturned ==
    /\ ucall.op = "privacy_amplification" /\ uret.done
    /\ ucall.method = "standard"
UniversalReturned ==
    /\ ucall.op = "privacy_amplification" /\ uret.done
    /\ ucall.method = "universal"
\* floor(n * p) for a natural n and a rational p >= 0
Floor(n, p) == (n * p[1]) \div p[2]

\* C17 (as claimed): 'standard' privacy amplification returns exactly the
\* first floor(len(key) * factor) bits of the key, for every key.
C17_StandardKeepsFloor ==
    StandardReturned =>
        uret.val = SubSeq(ucall.alice, 1,
                          Floor(Len(ucall.alice), ucall.amplification_factor))

\* C17 (amended): 'standard' privacy amplification returns exactly the first
\* max(1, floor(len(key) * factor)) bits of a non-empty key, and the empty
\* string for the empty key.
C17_StandardKeepsFloorOrOneBit ==
    StandardReturned =>
        IF ucall.alice = <<>> THEN uret.val = <<>>
        ELSE uret.val = SubSeq(ucall.alice, 1,
                               Max(1, Floor(Len(ucall.alice),
                                            ucall.amplification_factor)))

\* a key of 8 bits and the factor 0.5 yield its first 4 bits
C17_Witness ==
    /\ StandardReturned
    /\ ucall.alice = <<"1", "0", "0", "1", "1", "1", "0", "0">>
    /\ ucall.amplification_factor = Rat(1, 2)
    /\ uret.val = <<"1", "0", "0", "1">>

\* the pairwise XOR of a key: key[2i] XOR key[2i+1] (positions from 0), a
\* trailing unpaired bit copied through
PairwiseXor(key) ==
    [i \in 1..((Len(key) + 1) \div 2) |->
        IF 2 * i <= Len(key)
        THEN (IF key[2 * i - 1] = key[2 * i] THEN "0" ELSE "1")
        ELSE key[2 * i - 1]]

\* C18 (as claimed): 'universal' privacy amplification returns the pairwise
\* XOR of the key truncated to floor(len(key) * 0.6) bits.
C18_UniversalIsXorThenFloor ==
    UniversalReturned =>
        uret.val = SubSeq(PairwiseXor(ucall.alice), 1,
                          Min(Floor(Len(ucall.alice), Rat(6, 10)),
                              Len(PairwiseXor(ucall.alice))))

\* C18 (amended): 'universal' privacy amplification returns the pairwise XOR
\* of the key truncated to max(1, floor(len(key) * 0.6)) bits for a non-empty
\* key, and the empty string for the empty key; "1010" yields "11".
C18_UniversalIsXorThenFloorOrOneBit ==
    UniversalReturned =>
        /\ IF ucall.alice = <<>> THEN uret.val = <<>>
           ELSE uret.val = SubSeq(PairwiseXor(ucall.alice), 1,
                                  Min(Max(1, Floor(Len(ucall.alice), Rat(6, 10))),
                                      Len(PairwiseXor(ucall.alice))))
        /\ ucall.alice = <<"1", "0", "1", "0">> => uret.val = <<"1", "1">>

\* "1010" yields "11"
C18_Witness ==
    /\ UniversalReturned
    /\ ucall.alice = <<"1", "0", "1", "0">>
    /\ uret.val = <<"1", "1">>

\* C19 (as claimed): in every result of run_manual_simulation, whatever the
\* eve_attack, alice_bits, alice_bases, bob_bits, bob_bases and eve_bases all
\* have the length of the input.
C19_ResultSequencesHaveInputLength ==
    (eng.mode = "manual" /\ eng.pc = "done") =>
        /\ Len(eng.alice_bases) = Len(eng.alice_bits)
        /\ Len(eng.bob_bits) = Len(eng.alice_bits)
        /\ Len(eng.bob_bases) = Len(eng.alice_bits)
        /\ Len(eng.eve_bases) = Len(eng.alice_bits)

\* a run of run_manual_simulation past its security decision whose reported
\* qber is at or above the threshold
ThresholdExceeded ==
    /\ eng.mode = "manual"
    /\ eng.pc \in {"correct", "amplify", "done", "raised"}
    /\ eng.error /= "ValueError"
    /\ RatLeq(qber_threshold, eng.qber)

\* C20 (as claimed): when qber >= qber_threshold, run_manual_simulation
\* neither raises nor aborts: after the security decision has set is_secure
\* to false it runs error correction, then privacy amplification, then
\* returns its result, with is_secure still false.
C20_ExceedingThresholdIsNormalOutcome ==
    [][ThresholdExceeded' =>
          /\ ~eng'.is_secure
          /\ <<eng.pc, eng'.pc>> \in {<<"security", "correct">>,
                                      <<"correct", "amplify">>,
                                      <<"amplify", "done">>}]_vars

CalledTwice(op) == ucall.op = op /\ uret.again

\* C21 (as claimed): for each metrics operation and every backend_type, two
\* calls on the same unchanged result return identical metrics.
C21_MetricsAreIdempotent ==
    \A op \in {"calculate_advanced_metrics", "_calculate_dynamic_metrics",
               "get_advanced_lab_metrics"} :
        CalledTwice(op) => uret.val2 = uret.val

ChannelReturned == eng.pc = "eve"
FlippedPositions ==
    {i \in 1..Len(eng.alice_bits) : eng.transmitted_bits[i] = Flip(eng.alice_bits[i])}

\* C22: apply_channel_effects returns a sequence of the input's length in
\* which every position is '?', the flipped input bit or the input bit, and
\* an error rate equal to the number of flipped positions over the input
\* length (0 for the empty input); a lost position is not counted.
C22_ChannelLosesFlipsOrPasses ==
    ChannelReturned =>
        /\ Len(eng.transmitted_bits) = Len(eng.alice_bits)
        /\ \A i \in 1..Len(eng.alice_bits) :
             eng.transmitted_bits[i]
                 \in {Lost, Flip(eng.alice_bits[i]), eng.alice_bits[i]}
        /\ IF eng.alice_bits = <<>> THEN eng.channel_error_rate[1] = 0
           ELSE eng.channel_error_rate[1] * Len(eng.alice_bits)
                    = Cardinality(FlippedPositions) * eng.channel_error_rate[2]

\* two bits went in: the first was lost, the second flipped, and the error
\* rate is 1/2
C22_Witness ==
    /\ ChannelReturned
    /\ eng.alice_bits = <<"0", "1">>
    /\ eng.transmitted_bits = <<Lost, "0">>
    /\ eng.channel_error_rate = Rat(1, 2)

\* the raw QBER of the sifted keys: the fraction of differing positions, 1.0
\* for an empty sifted key
RawQber ==
    IF eng.alice_sifted = <<>> \/ eng.bob_sifted = <<>> THEN Rat(1, 1)
    ELSE Rat(Cardinality(Differing(eng.alice_sifted, eng.bob_sifted)),
             Len(eng.alice_sifted))
\* raw * 1.10 capped at 0.5 for sarg04, raw * 0.98 for decoy, raw * 0.95 for
\* six-state, raw for custom and bb84
VariantQber(raw, variant) ==
    IF variant = "sarg04"
    THEN (IF raw[1] * 11 * 2 <= raw[2] * 10 THEN <<raw[1] * 11, raw[2] * 10>>
          ELSE <<1, 2>>)
    ELSE IF variant = "decoy" THEN <<raw[1] * 98, raw[2] * 100>>
    ELSE IF variant = "six-state" THEN <<raw[1] * 95, raw[2] * 100>>
    ELSE raw
Adjusted ==
    /\ eng.mode = "manual"
    /\ eng.pc \in {"security", "correct", "amplify", "done"}
       \/ (eng.pc = "raised" /\ eng.error = "TypeError")

\* C23: in run_manual_simulation the variant adjustment is applied exactly
\* once, after the raw QBER is computed from the sifted keys and before the
\* security decision: from the decision on, and in the result, the reported
\* qber is the raw QBER adjusted once for the variant (raw 0.10 under decoy
\* gives 0.098), and is_secure was decided on that value.
C23_VariantAdjustedOnce ==
    /\ Adjusted => RatEq(eng.qber, VariantQber(RawQber, eng.protocol_variant))
    /\ (Adjusted /\ eng.pc /= "security") =>
           (eng.is_secure <=> RatLess(VariantQber(RawQber, eng.protocol_variant),
                                      Rat(85, 1000)))
    /\ RatEq(VariantQber(Rat(1, 10), "decoy"), Rat(98, 1000))

\* a decoy run that sifted two bits, one of them wrong: raw 0.5, reported 0.49
C23_Witness ==
    /\ eng.mode = "manual" /\ eng.pc = "done"
    /\ eng.protocol_variant = "decoy"
    /\ Len(eng.alice_sifted) = 2
    /\ Cardinality(Differing(eng.alice_sifted, eng.bob_sifted)) = 1
    /\ RatEq(eng.qber, Rat(49, 100))

EveReturned(attack_type) ==
    /\ ucall.op = "simulate_eve_attack" /\ uret.done
    /\ ucall.method = attack_type

\* C24: simulate_eve_attack with intercept_resend returns a bit sequence and
\* an Eve basis sequence of the input's length; where Eve's basis equals
\* Alice's the forwarded symbol is the input symbol, elsewhere it is 0 or 1;
\* the detection probability is 0.25.  With none the bits come back
\* unchanged and the detection probability is 0.
C24_InterceptResendContract ==
    /\ EveReturned("intercept_resend") =>
         /\ Len(uret.val[1]) = Len(ucall.alice)
         /\ Len(uret.val[2]) = Len(ucall.alice)
         /\ \A i \in 1..Len(ucall.alice) :
              /\ uret.val[2][i] \in BasisSym
              /\ IF uret.val[2][i] = ucall.alice_bases[i]
                 THEN uret.val[1][i] = ucall.alice[i]
                 ELSE uret.val[1][i] \in {"0", "1"}
         /\ uret.val[3][1] * 4 = uret.val[3][2]
    /\ EveReturned("none") =>
         /\ uret.val[1] = ucall.alice
         /\ uret.val[3][1] = 0

\* Eve guessed Alice's basis at the first position and forwarded the bit,
\* missed it at the second and forwarded the other bit
C24_Witness ==
    /\ EveReturned("intercept_resend")
    /\ ucall.alice = <<"0", "1", "1">>
    /\ uret.val[2][1] = ucall.alice_bases[1] /\ uret.val[1][1] = "0"
    /\ uret.val[2][2] /= ucall.alice_bases[2] /\ uret.val[1][2] = "0"

LabSiftedPositions ==
    {j \in 1..Min(lab.i, Len(lab.detected_photons)) :
        lab.alice_bases[lab.detected_photons[j] + 1] = lab.bob_bases[j]}

LabEveKeepsBitAndBasis ==
    (/\ lab.pc = "transmit" /\ lab.i > 0
     /\ lab.attack_strategy \in {"Beam Splitting", "Photon Number Splitting",
                                 "Trojan Horse Attack"}) =>
        /\ lab.photon.bit_value = lab.alice_bits[lab.i]
        /\ lab.photon.basis = lab.alice_bases[lab.i]

\* C25 (as claimed, the engine's half): for beam_splitting,
\* photon_number_splitting and trojan_horse, Eve's step changes no
\* transmitted symbol, so that bob_bits carry the symbols the channel
\* delivered.
C25_EveLeavesBitsUnchanged ==
    [][(/\ eng.pc = "eve" /\ eng'.pc = "measure"
        /\ eng'.eve_attack \in {"beam_splitting", "photon_number_splitting",
                               "trojan_horse"})
          => eng'.transmitted_bits = eng.transmitted_bits]_vars

\* stop_continuous_simulation has returned with the flag false and no start
\* has been issued since
StoppedQuiet ==
    /\ clock.stops > 0 /\ stopper.pc = "idle"
    /\ ~cs.running
    /\ starter.pc = "idle"
AllWorkersOut == \A w \in Workers : worker[w].pc \in {"unborn", "done"}

\* C26: after stop_continuous_simulation has set the running flag to false,
\* and unless a start follows, every background worker eventually leaves its
\* loop; a stop when nothing is running changes no state.
C26_StopEndsEveryWorker ==
    /\ StoppedQuiet ~> (AllWorkersOut \/ starter.pc /= "idle")
    /\ [][(stopper.pc = "idle" /\ ~cs.running /\ clock'.stops /= clock.stops)
            => (cs' = cs /\ worker' = worker /\ lock' = lock
                /\ stopper' = stopper)]_vars

\* the flag was set by a stop while a worker was alive, and that worker has
\* left its loop
C26_Witness ==
    /\ StoppedQuiet
    /\ cs.data.id = 1
    /\ worker[1].pc = "done"

\* C27 (as claimed): once stop_continuous_simulation has returned and no
\* later start has been issued, no background worker writes to the metrics
\* map.
C27_NoWorkerWriteAfterStop ==
    [][StoppedQuiet =>
          ~(\E w \in Workers : worker[w].pc = "update" /\ worker'[w].pc = "loop")]_vars

\* C28 (as claimed): a photon the channel marked undetected is still '?'
\* after Eve's step, whatever the eve_attack value, so that sifting (which
\* skips '?') never takes a position the channel lost.
C28_LostStaysLostThroughEve ==
    [][(eng.pc = "eve" /\ eng'.pc = "measure")
         => \A i \in 1..Len(eng.transmitted_bits) :
               eng.transmitted_bits[i] = Lost
                 => /\ i <= Len(eng'.transmitted_bits)
                    /\ eng'.transmitted_bits[i] = Lost]_vars

\* H2(qber) * sifted_length rounded to two digits, closed where the binary
\* entropy is rational: H2(0) = H2(1) = 0 and H2(1/2) = 1
EntropyLeak(qber, n) ==
    IF n = 0 \/ RatEq(qber, RatZero) \/ RatEq(qber, RatOne) THEN RatZero
    ELSE IF RatEq(qber, Rat(1, 2)) THEN Round(RatOfInt(n), 2)
    ELSE RoundTerm(EntropyTimes(qber, n), 2)

\* C30 (as claimed): calculate_privacy_amplification_ratio reports
\* information_leaked_bits = H2(qber) * sifted_length, hence 0 leaked bits at
\* qber 0 and at qber 1.
C30_LeakIsEntropyTimesLength ==
    (ucall.op = "calculate_privacy_amplification_ratio" /\ uret.done) =>
        LET leaked   == uret.val.information_leaked_bits
            expected == EntropyLeak(ucall.qber, ucall.sifted_key_length)
        IN  IF Len(expected) = 2 THEN Len(leaked) = 2 /\ RatEq(leaked, expected)
            ELSE leaked = expected

=============================================================================
